---- MODULE Spec2Model ----
(***************************************************************************)
(* A model of the agentic retrieval pipeline: the expression evaluator     *)
(* (src/agents/tools.py), the Verifier (src/agents/safety.py), the hybrid  *)
(* retriever (src/retrieval/hybrid.py) and the three-stage workflow with   *)
(* its entry and exit guards (src/agents/langgraph_workflow.py).           *)
(*                                                                         *)
(* Text is modelled as a sequence of one-character strings, so that the    *)
(* character-level steps of the code (regex substitution, tokenizing) are  *)
(* computed rather than assumed.                                           *)
(***************************************************************************)
EXTENDS Integers, Sequences, FiniteSets, TLC

None == "None"

Abs(x) == IF x < 0 THEN -x ELSE x

Sign(x) == IF x < 0 THEN -1 ELSE IF x = 0 THEN 0 ELSE 1

Max2(a, b) == IF a >= b THEN a ELSE b

Min2(a, b) == IF a <= b THEN a ELSE b

(***************************************************************************)
(* Bounds of the model.                                                    *)
(***************************************************************************)
\* Longest expression drawn exhaustively from CalcAlphabet.
MaxLen == 4

\* Largest operand of the structured two-operand expressions.
MaxOperand == 4

\* Numerators, denominators and integers are tracked exactly up to IntCap;
\* beyond it a number is tracked by its sign and an estimate of its bit length.
IntCap == 1000000000

\* No bit-length estimate is tracked beyond LgCap.
LgCap == 1000000

(***************************************************************************)
(* Characters (tools.py line 46: the class [^\d\+\-\*\/\%\^\(\)\.\s]).      *)
(***************************************************************************)
DigitChars == {"0", "1", "2", "3", "4", "5", "6", "7", "8", "9"}

\* \s, restricted to the blanks that stay inside one source line.
WhitespaceChars == {" ", "\t"}

OperatorChars == {"+", "-", "*", "/", "%", "^"}

AllowedChars == DigitChars \cup OperatorChars \cup {"(", ")", "."} \cup WhitespaceChars

DigitValue(c) ==
    CASE c = "0" -> 0 [] c = "1" -> 1 [] c = "2" -> 2 [] c = "3" -> 3
      [] c = "4" -> 4 [] c = "5" -> 5 [] c = "6" -> 6 [] c = "7" -> 7
      [] c = "8" -> 8 [] c = "9" -> 9

\* re.sub(r'[^\d\+\-\*\/\%\^\(\)\.\s]', '', expression)
\* Sanitize without the filter: every character is kept.
Sanitize_KeepsAll(expression) == expression

Sanitize(expression) == SelectSeq(expression, LAMBDA c : c \in AllowedChars)

\* not sanitized.strip()
IsBlank(s) == \A i \in 1..Len(s) : s[i] \in WhitespaceChars

\* The replacement with the product sign in the place of the power sign.
ReplaceCaret_AsProduct(s) == [i \in 1..Len(s) |-> IF s[i] = "^" THEN "*" ELSE s[i]]

\* sanitized.replace('^', '**')
RECURSIVE ReplaceCaret(_)
ReplaceCaret(s) ==
    IF s = <<>> THEN <<>>
    ELSE (IF Head(s) = "^" THEN <<"*", "*">> ELSE <<Head(s)>>) \o ReplaceCaret(Tail(s))

\* re.search(r'\d', sanitized)
HasDigit(s) == \E i \in 1..Len(s) : s[i] \in DigitChars

\* The running parenthesis counter after the first i characters.
RECURSIVE ParenCount(_, _)
ParenCount(s, i) ==
    IF i = 0 THEN 0
    ELSE ParenCount(s, i - 1)
         + (IF s[i] = "(" THEN 1 ELSE IF s[i] = ")" THEN -1 ELSE 0)

\* The check of the final count alone, without the check inside the loop.
ParenBalanced_FinalCountOnly(s) == ParenCount(s, Len(s)) = 0

\* The loop of lines 69-81 returns as soon as the counter is negative;
\* line 83 rejects a nonzero final count.
ParenBalanced(s) ==
    /\ \A i \in 1..Len(s) : ParenCount(s, i) >= 0
    /\ ParenCount(s, Len(s)) = 0

(***************************************************************************)
(* Values of the evaluated expression. Python's int is unbounded and its   *)
(* float an IEEE double; here a number is                                  *)
(*   m = "exact": the rational n/d (d >= 1, in lowest terms), or           *)
(*   m = "est":   finite and nonzero, of sign n and about 2^lg in size     *)
(*                (too large, too small or too irrational to track), or    *)
(*   m = "inf" (of sign n) or m = "nan", for a float.                      *)
(* t is the Python type: int, float, complex, tuple (the empty tuple "()") *)
(* or ellipsis ("..."). An exception in flight is a value of type "exc"    *)
(* whose m names it. A float in range is kept as the exact rational: the   *)
(* rounding of a double to 53 bits is not modelled (2 % .2 is 0 here and   *)
(* 0.1999999999999999 in Python); which path the calculator takes, and     *)
(* whether a result is finite, does not depend on it.                      *)
(***************************************************************************)
\* sys.float_info.max is just below 2^1024: what float(result) and float
\* arithmetic can hold.
FloatMaxExp == 1024

\* The smallest positive double is 2^-1074: anything smaller is 0.0.
FloatMinExp == 1075

V(t, m, n, d, lg) == [t |-> t, m |-> m, n |-> n, d |-> d, lg |-> lg]

Exc(name) == V("exc", name, 0, 1, 0)

IsExc(x) == x.t = "exc"

TupleV == V("tuple", "exact", 0, 1, 0)

EllipsisV == V("ellipsis", "exact", 0, 1, 0)

ComplexV == V("complex", "est", 1, 1, 0)

IntV(n) == V("int", "exact", n, 1, 0)

InfV(sign) == V("float", "inf", sign, 1, 0)

NanV == V("float", "nan", 0, 1, 0)

RECURSIVE Gcd(_, _)
Gcd(a, b) == IF b = 0 THEN a ELSE Gcd(b, a % b)

\* The rational n/d with d > 0, in lowest terms.
Rat(t, n, d) ==
    LET g == Gcd(Abs(n), d)
    IN  V(t, "exact", n \div g, d \div g, 0)

FloatV(n, d) == Rat("float", n, d)

Fits(n) == Abs(n) <= IntCap

MulFits(a, b) == a = 0 \/ b = 0 \/ Abs(a) <= IntCap \div Abs(b)

\* floor(log2 n) for n >= 1
RECURSIVE ILog2(_)
ILog2(n) == IF n < 2 THEN 0 ELSE 1 + ILog2(n \div 2)

ClampLg(lg) == Max2(-LgCap, Min2(LgCap, lg))

\* A finite nonzero number known by sign and size only. A float below the
\* smallest double is 0.0; one above the largest is for the caller to decide
\* (inf or OverflowError).
Est(t, sign, lg) ==
    IF t = "float" /\ lg < -FloatMinExp THEN FloatV(0, 1)
    ELSE V(t, "est", sign, 1, ClampLg(lg))

IsNum(x) == x.t \in {"int", "float"}

IsZero(x) == x.m = "exact" /\ x.n = 0

IsFinite(x) == x.m \in {"exact", "est"}

SignOf(x) == IF x.m = "nan" THEN 0 ELSE Sign(x.n)

\* About log2 |x| for a finite nonzero x.
Lg(x) == IF x.m = "est" THEN x.lg ELSE ILog2(Abs(x.n)) - ILog2(x.d)

\* |x| < 1, for a finite x
BelowOne(x) == IF x.m = "est" THEN x.lg < 0 ELSE Abs(x.n) < x.d

\* float(x) for an int x: OverflowError beyond the largest double.
ToFloat(x) ==
    IF x.t # "int" THEN x
    ELSE IF x.m = "exact" THEN FloatV(x.n, 1)
    ELSE IF x.lg >= FloatMaxExp THEN Exc("OverflowError")
    ELSE Est("float", x.n, x.lg)

\* The result of a float operation whose exact value is not tracked:
\* IEEE arithmetic overflows to an infinity.
FloatEst(sign, lg) ==
    IF lg >= FloatMaxExp THEN InfV(sign) ELSE Est("float", sign, lg)

NumEst(t, sign, lg) == IF t = "float" THEN FloatEst(sign, lg) ELSE Est(t, sign, lg)

\* Python's floor division of integers, b # 0.
FloorDivI(a, b) ==
    LET q == Abs(a) \div Abs(b)
        exactly == Abs(a) % Abs(b) = 0
    IN  IF a = 0 \/ Sign(a) = Sign(b) THEN q
        ELSE IF exactly THEN -q ELSE -q - 1

Neg(x) ==
    IF ~IsNum(x) THEN (IF x.t = "complex" THEN x ELSE Exc("TypeError"))
    ELSE IF x.m = "nan" THEN x
    ELSE [x EXCEPT !.n = -x.n]

Pos(x) == IF IsNum(x) \/ x.t = "complex" THEN x ELSE Exc("TypeError")

\* x + y for finite numbers of result type t
AddNum(t, x, y) ==
    IF x.m = "exact" /\ y.m = "exact"
       /\ MulFits(x.n, y.d) /\ MulFits(y.n, x.d) /\ MulFits(x.d, y.d)
       /\ Fits(Rat(t, x.n * y.d + y.n * x.d, x.d * y.d).n)
    THEN Rat(t, x.n * y.d + y.n * x.d, x.d * y.d)
    ELSE IF IsZero(x) THEN [y EXCEPT !.t = t]
    ELSE IF IsZero(y) THEN [x EXCEPT !.t = t]
    ELSE NumEst(t, IF Lg(y) > Lg(x) THEN SignOf(y) ELSE SignOf(x),
                Max2(Lg(x), Lg(y)) + (IF SignOf(x) = SignOf(y) THEN 1 ELSE 0))

\* x * y for finite numbers of result type t
MulNum(t, x, y) ==
    IF IsZero(x) \/ IsZero(y) THEN Rat(t, 0, 1)
    ELSE IF x.m = "exact" /\ y.m = "exact" /\ MulFits(x.n, y.n) /\ MulFits(x.d, y.d)
    THEN Rat(t, x.n * y.n, x.d * y.d)
    ELSE NumEst(t, SignOf(x) * SignOf(y), Lg(x) + Lg(y))

\* x / y for finite numbers, y # 0: always a float
DivNum(x, y) ==
    IF IsZero(x) THEN FloatV(0, 1)
    ELSE IF x.m = "exact" /\ y.m = "exact" /\ MulFits(x.n, y.d) /\ MulFits(x.d, y.n)
    THEN FloatV(Sign(y.n) * x.n * y.d, x.d * Abs(y.n))
    ELSE LET lg == Lg(x) - Lg(y)
         IN  \* int / int raises where float / float overflows to inf
             IF x.t = "int" /\ y.t = "int" /\ lg >= FloatMaxExp THEN Exc("OverflowError")
             ELSE FloatEst(SignOf(x) * SignOf(y), lg)

\* x // y for finite numbers of result type t, y # 0
FloorDivNum(t, x, y) ==
    IF IsZero(x) THEN Rat(t, 0, 1)
    ELSE IF x.m = "exact" /\ y.m = "exact" /\ MulFits(x.n, y.d) /\ MulFits(x.d, y.n)
    THEN Rat(t, FloorDivI(x.n * y.d, x.d * y.n), 1)
    ELSE IF Lg(x) < Lg(y)
    THEN Rat(t, IF SignOf(x) = SignOf(y) THEN 0 ELSE -1, 1)
    ELSE NumEst(t, SignOf(x) * SignOf(y), Lg(x) - Lg(y))

\* x % y for finite numbers of result type t, y # 0: x - y * floor(x / y)
ModNum(t, x, y) ==
    IF IsZero(x) THEN Rat(t, 0, 1)
    ELSE IF x.m = "exact" /\ y.m = "exact" /\ MulFits(x.n, y.d) /\ MulFits(x.d, y.n)
            /\ MulFits(x.d, y.d)
    THEN LET q == FloorDivI(x.n * y.d, x.d * y.n)
         IN  Rat(t, x.n * y.d - q * y.n * x.d, x.d * y.d)
    ELSE IF Lg(x) < Lg(y) /\ SignOf(x) = SignOf(y) THEN [x EXCEPT !.t = t]
    ELSE Est(t, SignOf(y), Lg(y) - 1)

\* b^e from h = b^(e \div 2), or IntCap + 1 when it exceeds IntCap.
PowFromHalf(b, e, h) ==
    IF h > IntCap \/ ~MulFits(h, h) THEN IntCap + 1
    ELSE IF e % 2 = 0 THEN h * h
    ELSE IF MulFits(h * h, b) THEN h * h * b
    ELSE IntCap + 1

\* b^e for b >= 0 and e >= 1, or IntCap + 1 when it exceeds IntCap.
RECURSIVE PowC(_, _)
PowC(b, e) ==
    IF b <= 1 THEN b
    ELSE IF e > 30 THEN IntCap + 1
    ELSE IF e = 1 THEN b
    ELSE PowFromHalf(b, e, PowC(b, e \div 2))

\* The largest m with b^m <= IntCap, for 2 <= b <= IntCap.
MaxExp(b) == CHOOSE m \in 1..30 : PowC(b, m) <= IntCap /\ PowC(b, m + 1) > IntCap

\* About log2 (b^e) for b >= 1: e * log2 b, log2 b taken from the largest
\* power of b that is tracked exactly (exact when b is a power of two).
PowLgI(b, e) ==
    IF b <= 1 THEN 0
    ELSE IF b > IntCap THEN LgCap
    ELSE LET m == MaxExp(b)
         IN  (Min2(e, LgCap) * ILog2(PowC(b, m))) \div m

\* A power known by its size only: pow raises where it would overflow.
PowEst(t, sign, lg) ==
    IF t = "float" /\ lg >= FloatMaxExp THEN Exc("OverflowError") ELSE Est(t, sign, lg)

IsOddInt(y) == y.m = "exact" /\ y.d = 1 /\ y.n % 2 = 1

\* x ** y for finite numbers of result type t
PowNum(t, x, y) ==
    IF IsZero(y) \/ (x.m = "exact" /\ x.n = 1 /\ x.d = 1) THEN Rat(t, 1, 1)
    ELSE IF IsZero(x)
    THEN (IF SignOf(y) < 0 THEN Exc("ZeroDivisionError") ELSE Rat(t, 0, 1))
    ELSE IF y.m = "exact" /\ y.d = 1
    THEN LET e == Abs(y.n)
             sign == IF SignOf(x) < 0 /\ e % 2 = 1 THEN -1 ELSE 1
             num == IF x.m = "exact" THEN PowC(Abs(x.n), e) ELSE IntCap + 1
             den == IF x.m = "exact" THEN PowC(x.d, e) ELSE IntCap + 1
             lg == IF x.m = "exact" THEN PowLgI(Abs(x.n), e) - PowLgI(x.d, e)
                   ELSE ClampLg(x.lg) * Min2(e, FloatMinExp + FloatMaxExp)
         IN  IF num <= IntCap /\ den <= IntCap
             THEN (IF y.n > 0 THEN Rat(t, sign * num, den) ELSE Rat(t, sign * den, num))
             ELSE PowEst(t, sign, IF y.n > 0 THEN lg ELSE -lg)
    ELSE IF y.m = "exact"
    THEN \* a fractional exponent
         IF SignOf(x) < 0 THEN ComplexV
         ELSE PowEst("float", 1, (Lg(x) * y.n) \div y.d)
    ELSE \* an exponent known by its size only
         IF SignOf(x) < 0 /\ y.t = "float" THEN ComplexV
         ELSE IF BelowOne(x) = (SignOf(y) > 0) THEN Rat("float", 0, 1)
         ELSE Exc("OverflowError")

\* Float arithmetic with an infinity or a NaN among the operands (the divisor
\* is not zero).
SpecialOp(op, x, y) ==
    IF op = "**"
    THEN IF IsZero(y) \/ (x.m = "exact" /\ x.n = x.d) THEN FloatV(1, 1)
         ELSE IF x.m = "nan" \/ y.m = "nan" THEN NanV
         ELSE IF x.m = "inf"
         THEN (IF SignOf(y) < 0 THEN FloatV(0, 1)
               ELSE InfV(IF x.n < 0 /\ IsOddInt(y) THEN -1 ELSE 1))
         ELSE IF x.m = "exact" /\ Abs(x.n) = x.d THEN FloatV(1, 1)
         ELSE IF (IsZero(x) \/ BelowOne(x)) = (y.n > 0) THEN FloatV(0, 1)
         ELSE InfV(1)
    ELSE IF x.m = "nan" \/ y.m = "nan" THEN NanV
    ELSE IF op = "+"
    THEN (IF x.m = "inf" /\ y.m = "inf" /\ x.n # y.n THEN NanV
          ELSE IF x.m = "inf" THEN x ELSE y)
    ELSE IF op = "-"
    THEN (IF x.m = "inf" /\ y.m = "inf" /\ x.n = y.n THEN NanV
          ELSE IF x.m = "inf" THEN x ELSE InfV(-y.n))
    ELSE IF op = "*"
    THEN (IF IsZero(x) \/ IsZero(y) THEN NanV ELSE InfV(SignOf(x) * SignOf(y)))
    ELSE IF op = "/"
    THEN (IF x.m = "inf" /\ y.m = "inf" THEN NanV
          ELSE IF x.m = "inf" THEN InfV(SignOf(x) * SignOf(y))
          ELSE FloatV(0, 1))
    ELSE IF x.m = "inf" THEN NanV
    ELSE IF op = "//"
    THEN (IF IsZero(x) \/ SignOf(x) = SignOf(y) THEN FloatV(0, 1) ELSE FloatV(-1, 1))
    ELSE \* op = "%"
         (IF IsZero(x) \/ SignOf(x) = SignOf(y) THEN x ELSE y)

\* x op y for two ints or floats.
NumOp(op, x, y) ==
    LET toFloat == x.t = "float" \/ y.t = "float" \/ (op = "**" /\ SignOf(y) < 0)
        a == IF toFloat THEN ToFloat(x) ELSE x
        b == IF toFloat THEN ToFloat(y) ELSE y
        t == IF toFloat \/ op = "/" THEN "float" ELSE "int"
    IN  IF IsExc(a) THEN a
        ELSE IF IsExc(b) THEN b
        ELSE IF op \in {"/", "//", "%"} /\ IsZero(b) THEN Exc("ZeroDivisionError")
        ELSE IF ~IsFinite(a) \/ ~IsFinite(b) THEN SpecialOp(op, a, b)
        ELSE CASE op = "+" -> AddNum(t, a, b)
               [] op = "-" -> AddNum(t, a, Neg(b))
               [] op = "*" -> MulNum(t, a, b)
               [] op = "/" -> DivNum(a, b)
               [] op = "//" -> FloorDivNum(t, a, b)
               [] op = "%" -> ModNum(t, a, b)
               [] op = "**" -> PowNum(t, a, b)

\* OPERATORS (tools.py lines 9-18) as Python applies them to two values.
BinOp(op, x, y) ==
    IF x.t = "ellipsis" \/ y.t = "ellipsis" THEN Exc("TypeError")
    ELSE IF x.t = "tuple" \/ y.t = "tuple"
    THEN IF op = "+" /\ x.t = "tuple" /\ y.t = "tuple" THEN TupleV
         ELSE IF op = "*" /\ "int" \in {x.t, y.t}
         THEN LET k == IF x.t = "int" THEN x ELSE y
              IN  \* a repeat count beyond the machine word
                  IF k.m = "est" /\ k.lg >= 63 THEN Exc("OverflowError") ELSE TupleV
         ELSE Exc("TypeError")
    ELSE IF x.t = "complex" \/ y.t = "complex"
    THEN IF op \in {"//", "%"} THEN Exc("TypeError")
         ELSE IF op = "/" /\ IsZero(y) THEN Exc("ZeroDivisionError")
         ELSE IF IsExc(ToFloat(x)) \/ IsExc(ToFloat(y)) THEN Exc("OverflowError")
         ELSE ComplexV
    ELSE NumOp(op, x, y)

(***************************************************************************)
(* compile(sanitized, '<string>', 'eval') (tools.py line 93): Python's     *)
(* tokenizer and expression grammar over the characters that can reach it. *)
(***************************************************************************)
\* Characters that start or continue an identifier.
LetterChars == {"a", "b", "c", "x", "M", "B", "_"}

Tok(k, s, v) == [k |-> k, s |-> s, v |-> v]

NoV == V("none", "exact", 0, 1, 0)

BadTok == Tok("bad", "", NoV)

\* The first index at or after i that holds no digit.
RECURSIVE ScanDigits(_, _)
ScanDigits(s, i) ==
    IF i <= Len(s) /\ s[i] \in DigitChars THEN ScanDigits(s, i + 1) ELSE i

\* The first index at or after i that holds no letter or digit.
RECURSIVE ScanName(_, _)
ScanName(s, i) ==
    IF i <= Len(s) /\ s[i] \in LetterChars \cup DigitChars THEN ScanName(s, i + 1) ELSE i

\* The first index in i..j-1 that holds a nonzero digit, or j.
RECURSIVE FirstNonZero(_, _, _)
FirstNonZero(s, i, j) ==
    IF i >= j \/ s[i] # "0" THEN Min2(i, j) ELSE FirstNonZero(s, i + 1, j)

\* The number written by the digits s[i..j-1], or IntCap + 1 beyond IntCap.
RECURSIVE DigitsC(_, _, _)
DigitsC(s, i, j) ==
    IF j <= i THEN 0
    ELSE LET v == DigitsC(s, i, j - 1)
         IN  IF v > (IntCap \div 10) - 1 THEN IntCap + 1
             ELSE v * 10 + DigitValue(s[j - 1])

\* About log2 of a number of k significant decimal digits.
DecimalLg(k) == ((k - 1) * 3322) \div 1000

\* An integer literal s[i..j-1]: "leading zeros in decimal integer literals
\* are not permitted".
IntLiteral(s, i, j) ==
    IF s[i] = "0" /\ FirstNonZero(s, i, j) < j THEN BadTok
    ELSE IF DigitsC(s, i, j) <= IntCap THEN Tok("num", "", IntV(DigitsC(s, i, j)))
    ELSE Tok("num", "", Est("int", 1, DecimalLg(j - FirstNonZero(s, i, j))))

\* A float literal: integer digits s[i..j-1], a point at j, fraction digits
\* s[j+1..k-1].
FloatLiteral(s, i, j, k) ==
    LET ip == DigitsC(s, i, j)
        fp == DigitsC(s, j + 1, k)
        p == IF k - j - 1 = 0 THEN 1 ELSE PowC(10, k - j - 1)
    IN  IF ip <= IntCap /\ fp <= IntCap /\ p <= IntCap /\ MulFits(ip, p)
           /\ ip * p + fp <= IntCap
        THEN Tok("num", "", FloatV(ip * p + fp, p))
        ELSE IF FirstNonZero(s, i, j) < j
        THEN Tok("num", "", FloatEst(1, DecimalLg(j - FirstNonZero(s, i, j))))
        ELSE IF FirstNonZero(s, j + 1, k) < k
        THEN Tok("num", "", Est("float", 1, -DecimalLg(FirstNonZero(s, j + 1, k) - j + 1) - 1))
        ELSE Tok("num", "", FloatV(0, 1))

\* A number must not run into an identifier ("invalid decimal literal").
NumberEnds(s, k) == ~(k <= Len(s) /\ s[k] \in LetterChars)

RECURSIVE Tokenize(_, _)
Tokenize(s, i) ==
    IF i > Len(s) THEN <<>>
    ELSE LET c == s[i]
             more == i + 1 <= Len(s)
         IN  IF c \in WhitespaceChars THEN Tokenize(s, i + 1)
             ELSE IF c \in DigitChars
             THEN LET j == ScanDigits(s, i)
                      k == IF j <= Len(s) /\ s[j] = "." THEN ScanDigits(s, j + 1) ELSE j
                  IN  IF ~NumberEnds(s, k) THEN <<BadTok>>
                      ELSE IF k > j THEN <<FloatLiteral(s, i, j, k)>> \o Tokenize(s, k)
                      ELSE <<IntLiteral(s, i, j)>> \o Tokenize(s, j)
             ELSE IF c = "."
             THEN IF more /\ s[i + 1] \in DigitChars
                  THEN LET k == ScanDigits(s, i + 1)
                       IN  IF ~NumberEnds(s, k) THEN <<BadTok>>
                           ELSE <<FloatLiteral(s, i, i, k)>> \o Tokenize(s, k)
                  ELSE IF i + 2 <= Len(s) /\ s[i + 1] = "." /\ s[i + 2] = "."
                  THEN <<Tok("ell", "", EllipsisV)>> \o Tokenize(s, i + 3)
                  ELSE <<Tok("dot", "", NoV)>> \o Tokenize(s, i + 1)
             ELSE IF c \in LetterChars
             THEN LET k == ScanName(s, i)
                  IN  <<Tok("name", SubSeq(s, i, k - 1), NoV)>> \o Tokenize(s, k)
             ELSE IF c \in {"*", "/"} /\ more /\ s[i + 1] = c
             THEN <<Tok("op", IF c = "*" THEN "**" ELSE "//", NoV)>> \o Tokenize(s, i + 2)
             ELSE IF c \in {"+", "-", "*", "/", "%"}
             THEN <<Tok("op", c, NoV)>> \o Tokenize(s, i + 1)
             ELSE IF c = "(" THEN <<Tok("lp", "", NoV)>> \o Tokenize(s, i + 1)
             ELSE IF c = ")" THEN <<Tok("rp", "", NoV)>> \o Tokenize(s, i + 1)
             ELSE <<BadTok>>

\* Syntax trees.
Lit(v) == [k |-> "lit", v |-> v]

NameRef(id) == [k |-> "name", id |-> id]

Attr(a, id) == [k |-> "attr", a |-> a, id |-> id]

Un(op, a) == [k |-> "un", op |-> op, a |-> a]

Bin(op, a, b) == [k |-> "bin", op |-> op, a |-> a, b |-> b]

Call(f, args) == [k |-> "call", f |-> f, args |-> args]

Parsed(ast, i) == [ok |-> TRUE, ast |-> ast, i |-> i]

NoParse == [ok |-> FALSE, ast |-> Lit(NoV), i |-> 0]

IsOp(toks, i, ops) == i <= Len(toks) /\ toks[i].k = "op" /\ toks[i].s \in ops

IsTok(toks, i, k) == i <= Len(toks) /\ toks[i].k = k

RECURSIVE ParseSum(_, _), SumFrom(_, _), SumRest(_, _, _), SumNext(_, _, _, _)
RECURSIVE ParseTerm(_, _), TermFrom(_, _), TermRest(_, _, _), TermNext(_, _, _, _)
RECURSIVE ParseFactor(_, _), SignedFactor(_, _), ParsePower(_, _), PowerFrom(_, _)
RECURSIVE PowerOf(_, _), ParsePrimary(_, _), PrimaryFrom(_, _), PrimaryRest(_, _, _)
RECURSIVE CallWith(_, _, _), ParseAtom(_, _), Parenthesized(_, _)

\* sum: sum ('+' | '-') term | term
ParseSum(toks, i) == SumFrom(toks, ParseTerm(toks, i))

\* The sum that starts with the term r.
SumFrom(toks, r) == IF r.ok THEN SumRest(toks, r.ast, r.i) ELSE NoParse

SumRest(toks, left, i) ==
    IF IsOp(toks, i, {"+", "-"})
    THEN SumNext(toks, left, toks[i].s, ParseTerm(toks, i + 1))
    ELSE Parsed(left, i)

\* The sum of left and the term r, and what follows.
SumNext(toks, left, op, r) ==
    IF r.ok THEN SumRest(toks, Bin(op, left, r.ast), r.i) ELSE NoParse

\* term: term ('*' | '/' | '//' | '%') factor | factor
ParseTerm(toks, i) == TermFrom(toks, ParseFactor(toks, i))

\* The term that starts with the factor r.
TermFrom(toks, r) == IF r.ok THEN TermRest(toks, r.ast, r.i) ELSE NoParse

TermRest(toks, left, i) ==
    IF IsOp(toks, i, {"*", "/", "//", "%"})
    THEN TermNext(toks, left, toks[i].s, ParseFactor(toks, i + 1))
    ELSE Parsed(left, i)

\* The term of left and the factor r, and what follows.
TermNext(toks, left, op, r) ==
    IF r.ok THEN TermRest(toks, Bin(op, left, r.ast), r.i) ELSE NoParse

\* factor: ('+' | '-') factor | power
ParseFactor(toks, i) ==
    IF IsOp(toks, i, {"+", "-"})
    THEN SignedFactor(toks[i].s, ParseFactor(toks, i + 1))
    ELSE ParsePower(toks, i)

\* The factor r under the sign op.
SignedFactor(op, r) == IF r.ok THEN Parsed(Un(op, r.ast), r.i) ELSE NoParse

\* power: primary '**' factor | primary
ParsePower(toks, i) == PowerFrom(toks, ParsePrimary(toks, i))

\* The power whose base is the primary r.
PowerFrom(toks, r) ==
    IF r.ok /\ IsOp(toks, r.i, {"**"})
    THEN PowerOf(r.ast, ParseFactor(toks, r.i + 1))
    ELSE r

\* The power of base to the factor e.
PowerOf(base, e) == IF e.ok THEN Parsed(Bin("**", base, e.ast), e.i) ELSE NoParse

\* primary: primary '.' NAME | primary '(' [argument] ')' | atom
ParsePrimary(toks, i) == PrimaryFrom(toks, ParseAtom(toks, i))

\* The primary that starts with the atom r.
PrimaryFrom(toks, r) == IF r.ok THEN PrimaryRest(toks, r.ast, r.i) ELSE NoParse

\* What follows the primary left: attributes and calls. A call has no
\* argument or one argument, possibly unpacked: f(), f(x), f(*x), f(**x).
PrimaryRest(toks, left, i) ==
    IF IsTok(toks, i, "dot")
    THEN IF IsTok(toks, i + 1, "name")
         THEN PrimaryRest(toks, Attr(left, toks[i + 1].s), i + 2)
         ELSE NoParse
    ELSE IF IsTok(toks, i, "lp")
    THEN IF IsTok(toks, i + 1, "rp") THEN PrimaryRest(toks, Call(left, <<>>), i + 2)
         ELSE CallWith(toks, left,
                       ParseSum(toks, IF IsOp(toks, i + 1, {"*", "**"}) THEN i + 2 ELSE i + 1))
    ELSE Parsed(left, i)

\* The call of left with the argument r, and what follows.
CallWith(toks, left, r) ==
    IF r.ok /\ IsTok(toks, r.i, "rp")
    THEN PrimaryRest(toks, Call(left, <<r.ast>>), r.i + 1)
    ELSE NoParse

\* atom: NAME | NUMBER | '...' | '(' ')' | '(' expression ')'
ParseAtom(toks, i) ==
    IF IsTok(toks, i, "num") \/ IsTok(toks, i, "ell") THEN Parsed(Lit(toks[i].v), i + 1)
    ELSE IF IsTok(toks, i, "name") THEN Parsed(NameRef(toks[i].s), i + 1)
    ELSE IF IsTok(toks, i, "lp")
    THEN IF IsTok(toks, i + 1, "rp") THEN Parsed(Lit(TupleV), i + 2)
         ELSE Parenthesized(toks, ParseSum(toks, i + 1))
    ELSE NoParse

\* The expression r in parentheses.
Parenthesized(toks, r) ==
    IF r.ok /\ IsTok(toks, r.i, "rp") THEN Parsed(r.ast, r.i + 1) ELSE NoParse

\* code.co_names: the names the compiled expression refers to.
RECURSIVE Names(_)
Names(ast) ==
    CASE ast.k = "lit" -> <<>>
      [] ast.k = "name" -> <<ast.id>>
      [] ast.k = "attr" -> Names(ast.a) \o <<ast.id>>
      [] ast.k = "un" -> Names(ast.a)
      [] ast.k = "bin" -> Names(ast.a) \o Names(ast.b)
      [] ast.k = "call" ->
            Names(ast.f) \o (IF ast.args = <<>> THEN <<>> ELSE Names(ast.args[1]))

\* The code object of the parse r of all the tokens, if it is one.
CodeOf(s, toks, r) ==
    IF s # <<>> /\ s[1] \notin WhitespaceChars /\ r.ok /\ r.i = Len(toks) + 1
    THEN [ok |-> TRUE, ast |-> r.ast, co_names |-> Names(r.ast)]
    ELSE [ok |-> FALSE, ast |-> Lit(NoV), co_names |-> <<>>]

\* The code object for the text s and its tokens.
Compiled(s, toks) == CodeOf(s, toks, ParseSum(toks, 1))

\* compile(): a SyntaxError (ok = FALSE), or the code object. A first line
\* that starts with a blank is an IndentationError, a SyntaxError.
Compile(s) == Compiled(s, Tokenize(s, 1))

\* eval(code, {"__builtins__": {}}, {}) (tools.py line 105): operands left
\* to right, the first exception ends the evaluation.
RECURSIVE Eval(_)
Eval(ast) ==
    CASE ast.k = "lit" -> ast.v
      [] ast.k = "name" -> Exc("NameError")
      [] ast.k = "attr" ->
            LET a == Eval(ast.a) IN IF IsExc(a) THEN a ELSE Exc("AttributeError")
      [] ast.k = "un" ->
            LET a == Eval(ast.a)
            IN  IF IsExc(a) THEN a ELSE IF ast.op = "-" THEN Neg(a) ELSE Pos(a)
      [] ast.k = "bin" ->
            LET a == Eval(ast.a)
            IN  IF IsExc(a) THEN a
                ELSE LET b == Eval(ast.b)
                     IN  IF IsExc(b) THEN b ELSE BinOp(ast.op, a, b)
      [] ast.k = "call" ->
            LET f == Eval(ast.f)
            IN  IF IsExc(f) THEN f
                ELSE IF ast.args # <<>> /\ IsExc(Eval(ast.args[1])) THEN Eval(ast.args[1])
                ELSE \* no value of an arithmetic expression is callable
                     Exc("TypeError")

(***************************************************************************)
(* safe_calculator (tools.py lines 21-150).                                *)
(***************************************************************************)
CalcFailure(expression, error) ==
    [expression |-> expression, result |-> NoV, success |-> FALSE, error |-> error]

CalcSuccess(expression, value) ==
    [expression |-> expression, result |-> value, success |-> TRUE, error |-> None]

\* The except clauses of lines 130-150.
Handler(expression, exc) ==
    IF exc.m = "ZeroDivisionError" THEN CalcFailure(expression, "Division by zero")
    ELSE IF exc.m \in {"SyntaxError", "TypeError"}
    THEN CalcFailure(expression, "Invalid expression syntax")
    ELSE CalcFailure(expression, "Calculation error")

\* float(result) (line 126): a TypeError for what is no real number.
FloatOf(v) == IF IsNum(v) THEN ToFloat(v) ELSE Exc("TypeError")

\* Lines 56-57: the text that is validated and, if valid, compiled.
Prepared(expression) == ReplaceCaret(Sanitize(expression))

\* The checks of lines 48-89 let the text through to compile().
ReachesCompile(expression) ==
    /\ ~IsBlank(Sanitize(expression))
    /\ HasDigit(Prepared(expression))
    /\ ParenBalanced(Prepared(expression))

\* compile() succeeds and the loop over co_names (lines 96-102) finds no
\* name: eval() runs.
ReachesEval(expression) ==
    /\ ReachesCompile(expression)
    /\ Compile(Prepared(expression)).ok
    /\ Compile(Prepared(expression)).co_names = <<>>

\* Lines 124-128: the success result, unless float(result) raises.
CalcConverted(expression, value) ==
    IF IsExc(value) THEN Handler(expression, value) ELSE CalcSuccess(expression, value)

\* CalcEvaluated without the checks for NaN and infinity.
CalcEvaluated_NoFiniteCheck(expression, result) ==
    IF IsExc(result) THEN Handler(expression, result)
    ELSE CalcConverted(expression, FloatOf(result))

\* Lines 105-128: what follows eval(), which gave result or raised it.
CalcEvaluated(expression, result) ==
    IF IsExc(result) THEN Handler(expression, result)
    ELSE IF result.t = "float" /\ result.m = "nan"
    THEN CalcFailure(expression, "Result is not a number (NaN)")
    ELSE IF result.t = "float" /\ result.m = "inf"
    THEN CalcFailure(expression, "Result is infinite (overflow)")
    ELSE CalcConverted(expression, FloatOf(result))

\* Lines 93-105: what follows compile(), which gave code or a SyntaxError.
CalcCompiled(expression, code) ==
    IF ~code.ok THEN Handler(expression, Exc("SyntaxError"))
    ELSE IF code.co_names # <<>> THEN CalcFailure(expression, "Invalid operation")
    ELSE CalcEvaluated(expression, Eval(code.ast))

\* Lines 59-93: the checks of the text sanitized, then compile().
CalcChecked(expression, sanitized) ==
    IF ~HasDigit(sanitized) THEN CalcFailure(expression, "No numbers found in expression")
    ELSE IF ~ParenBalanced(sanitized) THEN CalcFailure(expression, "Unbalanced parentheses")
    ELSE CalcCompiled(expression, Compile(sanitized))

\* CalcSanitized without the check for an empty residual.
CalcSanitized_NoBlankCheck(expression, kept) == CalcChecked(expression, ReplaceCaret(kept))

\* Lines 48-57: the check of the characters kept, then the power operator.
CalcSanitized(expression, kept) ==
    IF IsBlank(kept) THEN CalcFailure(expression, "Empty or invalid expression")
    ELSE CalcChecked(expression, ReplaceCaret(kept))

safe_calculator(expression) == CalcSanitized(expression, Sanitize(expression))

(***************************************************************************)
(* Text helpers of the workflow (langgraph_workflow.py).                   *)
(***************************************************************************)
\* str.lower() on the letters the modelled texts use.
Lower(c) ==
    CASE c = "A" -> "a" [] c = "B" -> "b" [] c = "M" -> "m" [] c = "T" -> "t"
      [] OTHER -> c

LowerText(s) == [i \in 1..Len(s) |-> Lower(s[i])]

\* word in text
Contains(s, w) ==
    \E i \in 1..(Len(s) - Len(w) + 1) : SubSeq(s, i, i + Len(w) - 1) = w

\* any(word in text for word in words)
ContainsAny(s, words) == \E w \in words : Contains(s, w)

\* langgraph_workflow.py line 231
AddWords == {<<"t", "o", "t", "a", "l">>,
    <<"s", "u", "m">>,
    <<"a", "d", "d">>,
    <<"c", "o", "m", "b", "i", "n", "e", "d">>}

\* langgraph_workflow.py line 233
SubWords == {<<"d", "i", "f", "f", "e", "r", "e", "n", "c", "e">>,
    <<"s", "u", "b", "t", "r", "a", "c", "t">>,
    <<"m", "i", "n", "u", "s">>}

\* langgraph_workflow.py line 235
MulWords == {<<"m", "u", "l", "t", "i", "p", "l", "y">>,
    <<"t", "i", "m", "e", "s">>,
    <<"p", "r", "o", "d", "u", "c", "t">>}

\* langgraph_workflow.py line 237
DivWords == {<<"d", "i", "v", "i", "d", "e">>,
    <<"r", "a", "t", "i", "o">>,
    <<"p", "e", "r">>}

\* langgraph_workflow.py line 239
AvgWords == {<<"a", "v", "e", "r", "a", "g", "e">>,
    <<"m", "e", "a", "n">>}

\* The first index at or after i that holds neither a digit nor a comma.
RECURSIVE ScanDigitsCommas(_, _)
ScanDigitsCommas(s, i) ==
    IF i <= Len(s) /\ s[i] \in DigitChars \cup {","} THEN ScanDigitsCommas(s, i + 1) ELSE i

\* re.findall(r'\$?([\d,]+(?:\.\d+)?)\s*(?:million|M|billion|B)?', text) from
\* index i on (line 220): the captured groups, left to right.
RECURSIVE FindNumbers(_, _)
FindNumbers(s, i) ==
    IF i > Len(s) THEN <<>>
    ELSE IF s[i] \in DigitChars \cup {","}
    THEN LET j == ScanDigitsCommas(s, i)
             k == IF j + 1 <= Len(s) /\ s[j] = "." /\ s[j + 1] \in DigitChars
                  THEN ScanDigits(s, j + 1) ELSE j
         IN  <<SubSeq(s, i, k - 1)>> \o FindNumbers(s, k)
    ELSE FindNumbers(s, i + 1)

\* len(re.findall(r'\d+\.?\d*', content)) from index i on (line 182)
RECURSIVE CountNumbers(_, _)
CountNumbers(s, i) ==
    IF i > Len(s) THEN 0
    ELSE IF s[i] \in DigitChars
    THEN LET j == ScanDigits(s, i)
             k == IF j <= Len(s) /\ s[j] = "." THEN ScanDigits(s, j + 1) ELSE j
         IN  1 + CountNumbers(s, k)
    ELSE CountNumbers(s, i + 1)

\* n.replace(',', '')
StripCommas(n) == SelectSeq(n, LAMBDA c : c # ",")

\* " ".join(texts)
RECURSIVE JoinSpace(_)
JoinSpace(texts) ==
    IF texts = <<>> THEN <<>>
    ELSE IF Len(texts) = 1 THEN texts[1]
    ELSE texts[1] \o <<" ">> \o JoinSpace(Tail(texts))

\* s[:n]
Take(s, n) == SubSeq(s, 1, Min2(n, Len(s)))

(***************************************************************************)
(* HybridRetriever (retrieval/hybrid.py). A payload is a record; a missing *)
(* key holds None (an id, a filename) or the empty text.                   *)
(***************************************************************************)
\* hybrid.py line 90: content_snippet is text[:1500]
SnippetMax == 1500

NoMeta == [present |-> FALSE, chunk_id |-> None, text |-> <<>>, filename |-> None]

Meta(chunk_id, text, filename) ==
    [present |-> TRUE, chunk_id |-> chunk_id, text |-> text, filename |-> filename]

Payload(chunk_id, text, page_content, filename, metadata) ==
    [empty |-> FALSE, chunk_id |-> chunk_id, text |-> text,
     page_content |-> page_content, filename |-> filename, metadata |-> metadata]

\* A point whose payload is None or {}.
EmptyPayload == [Payload(None, <<>>, <<>>, None, NoMeta) EXCEPT !.empty = TRUE]

NoDoc == [chunk_id |-> None, text |-> <<>>, filename |-> None]

\* The elements of a sequence.
Range(s) == {s[i] : i \in 1..Len(s)}

\* a or b, for two texts
OrText(a, b) == IF a # <<>> THEN a ELSE b

\* a or b, for two ids
OrId(a, b) == IF a # None THEN a ELSE b

\* normalize_payload (hybrid.py lines 17-35); NoDoc stands for None.
normalize_payload(payload) ==
    LET text0 == OrText(payload.text, payload.page_content)
        nested == payload.chunk_id = None /\ payload.metadata.present
        chunk_id == IF nested THEN payload.metadata.chunk_id ELSE payload.chunk_id
        text == IF nested /\ text0 = <<>> THEN payload.metadata.text ELSE text0
    IN  IF payload.empty THEN NoDoc
        ELSE IF chunk_id # None /\ text # <<>>
        THEN [chunk_id |-> chunk_id, text |-> text,
              filename |-> OrId(payload.filename, payload.metadata.filename)]
        ELSE NoDoc

\* candidates[clean_data['chunk_id']] = clean_data (line 69): a dict keeps the
\* place of a key's first insertion and the value of its last.
PutCandidate(candidates, doc) ==
    IF \E i \in 1..Len(candidates) : candidates[i].chunk_id = doc.chunk_id
    THEN [i \in 1..Len(candidates) |->
            IF candidates[i].chunk_id = doc.chunk_id THEN doc ELSE candidates[i]]
    ELSE Append(candidates, doc)

\* MergeCandidates that stops at the first hit that gives no document.
RECURSIVE MergeCandidates_StopsAtInvalid(_, _)
MergeCandidates_StopsAtInvalid(candidates, hits) ==
    IF hits = <<>> \/ normalize_payload(Head(hits)) = NoDoc THEN candidates
    ELSE MergeCandidates_StopsAtInvalid(
            PutCandidate(candidates, normalize_payload(Head(hits))), Tail(hits))

\* Lines 65-71: merge and deduplicate the hits; list(candidates.values()).
RECURSIVE MergeCandidates(_, _)
MergeCandidates(candidates, hits) ==
    IF hits = <<>> THEN candidates
    ELSE LET clean_data == normalize_payload(Head(hits))
         IN  MergeCandidates(IF clean_data # NoDoc
                             THEN PutCandidate(candidates, clean_data)
                             ELSE candidates,
                             Tail(hits))

\* What the rerank collaborator answers for n documents and top_n: the
\* results, each an index (from 1) and a relevance score in thousandths.
RerankResults(policy, n, top_n) ==
    LET m == Min2(n, top_n)
    IN  CASE policy = "ranked" ->
                [r \in 1..m |-> [index |-> r, relevance_score |-> 1000 - 100 * r]]
          [] policy = "reversed" ->
                [r \in 1..m |-> [index |-> n + 1 - r, relevance_score |-> 1000 - 100 * r]]
          [] policy = "bad_index" ->
                <<[index |-> n + 1, relevance_score |-> 900]>>

Returned(results, calls) ==
    [raised |-> FALSE, exc |-> None, results |-> results, calls |-> calls]

Raised(exc, calls) ==
    [raised |-> TRUE, exc |-> exc, results |-> <<>>, calls |-> calls]

\* retrieve that returns the candidates unranked when the rerank fails.
retrieve_UnrankedOnFailure(query, top_k, env) ==
    LET candidates == MergeCandidates(<<>>, env.semantic \o env.keyword)
        reranked == RerankResults(env.rerank, Len(candidates), top_k)
    IN  IF env.count = "fail" \/ env.count = "zero"
        THEN Returned(<<>>, <<"stats">>)
        ELSE IF env.embed = "fail"
        THEN Raised("embed", <<"stats", "embed">>)
        ELSE IF env.vector = "fail"
        THEN Raised("vector", <<"stats", "embed", "vector">>)
        ELSE IF env.scroll = "fail"
        THEN Raised("keyword", <<"stats", "embed", "vector", "keyword">>)
        ELSE IF candidates = <<>>
        THEN Returned(<<>>, <<"stats", "embed", "vector", "keyword">>)
        ELSE IF env.rerank = "fail"
                \/ \E r \in 1..Len(reranked) : reranked[r].index > Len(candidates)
        THEN Returned(
                [r \in 1..Min2(Len(candidates), top_k) |->
                    [document |-> candidates[r].filename,
                     chunk_id |-> candidates[r].chunk_id,
                     relevance_score |-> 0,
                     content_snippet |-> Take(candidates[r].text, SnippetMax)]],
                <<"stats", "embed", "vector", "keyword", "rerank">>)
        ELSE Returned(
                [r \in 1..Len(reranked) |->
                    [document |-> candidates[reranked[r].index].filename,
                     chunk_id |-> candidates[reranked[r].index].chunk_id,
                     relevance_score |-> reranked[r].relevance_score,
                     content_snippet |->
                        Take(candidates[reranked[r].index].text, SnippetMax)]],
                <<"stats", "embed", "vector", "keyword", "rerank">>)

\* retrieve that embeds the query before it asks for the statistics.
retrieve_ChecksCountLate(query, top_k, env) ==
    LET candidates == MergeCandidates(<<>>, env.semantic \o env.keyword)
        reranked == RerankResults(env.rerank, Len(candidates), top_k)
    IN  IF env.embed = "fail"
        THEN Raised("embed", <<"embed">>)
        ELSE IF env.count = "fail" \/ env.count = "zero"
        THEN Returned(<<>>, <<"embed", "stats">>)
        ELSE IF env.vector = "fail"
        THEN Raised("vector", <<"embed", "stats", "vector">>)
        ELSE IF env.scroll = "fail"
        THEN Raised("keyword", <<"embed", "stats", "vector", "keyword">>)
        ELSE IF candidates = <<>>
        THEN Returned(<<>>, <<"embed", "stats", "vector", "keyword">>)
        ELSE IF env.rerank = "fail"
                \/ \E r \in 1..Len(reranked) : reranked[r].index > Len(candidates)
        THEN Returned(<<>>, <<"embed", "stats", "vector", "keyword", "rerank">>)
        ELSE Returned(
                [r \in 1..Len(reranked) |->
                    [document |-> candidates[reranked[r].index].filename,
                     chunk_id |-> candidates[reranked[r].index].chunk_id,
                     relevance_score |-> reranked[r].relevance_score,
                     content_snippet |->
                        Take(candidates[reranked[r].index].text, SnippetMax)]],
                <<"embed", "stats", "vector", "keyword", "rerank">>)

\* retrieve (hybrid.py lines 37-95) against collaborators that behave as env
\* says: what it returns or raises, and the collaborator calls it made.
retrieve(query, top_k, env) ==
    LET candidates == MergeCandidates(<<>>, env.semantic \o env.keyword)
        reranked == RerankResults(env.rerank, Len(candidates), top_k)
    IN  IF env.count = "fail" \/ env.count = "zero"
        THEN Returned(<<>>, <<"stats">>)
        ELSE IF env.embed = "fail"
        THEN Raised("embed", <<"stats", "embed">>)
        ELSE IF env.vector = "fail"
        THEN Raised("vector", <<"stats", "embed", "vector">>)
        ELSE IF env.scroll = "fail"
        THEN Raised("keyword", <<"stats", "embed", "vector", "keyword">>)
        ELSE IF candidates = <<>>
        THEN Returned(<<>>, <<"stats", "embed", "vector", "keyword">>)
        ELSE IF env.rerank = "fail"
                \/ \E r \in 1..Len(reranked) : reranked[r].index > Len(candidates)
        THEN Returned(<<>>, <<"stats", "embed", "vector", "keyword", "rerank">>)
        ELSE Returned(
                [r \in 1..Len(reranked) |->
                    [document |-> candidates[reranked[r].index].filename,
                     chunk_id |-> candidates[reranked[r].index].chunk_id,
                     relevance_score |-> reranked[r].relevance_score,
                     content_snippet |->
                        Take(candidates[reranked[r].index].text, SnippetMax)]],
                <<"stats", "embed", "vector", "keyword", "rerank">>)

(***************************************************************************)
(* Model responses. A response either fails (the call raises) or carries   *)
(* its content: the text of a body, possibly wrapped in a code fence, and  *)
(* what json.loads makes of that body. Scores are in thousandths.          *)
(***************************************************************************)
\* The backquote character, written by name.
Backquote == "BACKQUOTE"

\* The code fence: three backquotes.
Fence == <<Backquote, Backquote, Backquote>>

FenceKinds == {"none", "plain", "json"}

\* response.content of a body wrapped as the fence kind says
Content(fence, body) ==
    CASE fence = "none" -> body
      [] fence = "plain" -> Fence \o <<"\n">> \o body \o <<"\n">> \o Fence
      [] fence = "json" -> Fence \o <<"j", "s", "o", "n", "\n">> \o body \o <<"\n">> \o Fence

StartsWith(s, w) == Len(s) >= Len(w) /\ SubSeq(s, 1, Len(w)) = w

EndsWith(s, w) == Len(s) >= Len(w) /\ SubSeq(s, Len(s) - Len(w) + 1, Len(s)) = w

Drop(s, n) == SubSeq(s, n + 1, Len(s))

DropLast(s, n) == SubSeq(s, 1, Len(s) - n)

\* re.sub of the pattern: start, fence, optional json, optional newline
StripFenceHead(content) ==
    LET a == IF StartsWith(content, Fence) THEN Drop(content, 3) ELSE content
        b == IF StartsWith(content, Fence) /\ StartsWith(a, <<"j", "s", "o", "n">>)
             THEN Drop(a, 4) ELSE a
    IN  IF StartsWith(content, Fence) /\ StartsWith(b, <<"\n">>) THEN Drop(b, 1) ELSE b

\* re.sub of the pattern: optional newline, fence, end
StripFenceTail(content) ==
    IF EndsWith(content, <<"\n">> \o Fence) THEN DropLast(content, 4)
    ELSE IF EndsWith(content, Fence) THEN DropLast(content, 3)
    ELSE content

\* Lines 100-103 and 264-267 of langgraph_workflow.py, lines 57-59 of safety.py
StripFence(content) ==
    IF StartsWith(content, Fence) THEN StripFenceTail(StripFenceHead(content))
    ELSE content

\* json.loads(text) for a response: the decoding the response carries for its
\* body, and a decode error for any other text.
json_loads(response, text) ==
    IF text = response.body THEN response.decoded
    ELSE [kind |-> "malformed"] @@ response.decoded

(***************************************************************************)
(* Safety module (agents/safety.py).                                       *)
(***************************************************************************)
ReasonUnknown == <<"U", "n", "k", "n", "o", "w", "n">>

ReasonInjection == <<"i", "n", "j", "e", "c", "t", "i", "o", "n">>

ReasonFailed == <<"L", "L", "M", " ", "v", "a", "l", "i", "d", "a", "t", "i", "o", "n", " ", "f", "a", "i", "l", "e", "d">>

SafetyBody == <<"{", "s", "}">>

\* The JSON values the key "is_safe" may carry: the two booleans, null, the
\* numbers 0 and 1, the empty string and the string "false".
SafetyValues == {"true", "false", "null", "0", "1", "empty", "text"}

\* Python's truth value of a JSON value, as "not" takes it (safety.py
\* lines 64-65): false, null, 0 and the empty string are false.
Truthy(v) == v \notin {"false", "null", "0", "empty"}

\* What the safety model may answer: a decoding of kind "object" carries
\* the keys it has and their values.
SafetyDecodings ==
    {[kind |-> k, has_is_safe |-> FALSE, is_safe |-> "true",
      has_explanation |-> FALSE, explanation |-> ReasonUnknown] :
        k \in {"malformed", "nonobject"}}
    \cup {[kind |-> "object", has_is_safe |-> h, is_safe |-> v,
           has_explanation |-> e, explanation |-> IF e THEN ReasonInjection ELSE ReasonUnknown] :
            h \in BOOLEAN, v \in SafetyValues, e \in BOOLEAN}

SafetyResponses ==
    {[raises |-> r, fence |-> f, body |-> SafetyBody, decoded |-> d] :
        r \in BOOLEAN, f \in FenceKinds, d \in SafetyDecodings}

\* validate_input_llm (safety.py lines 28-76)
validate_input_llm(query, response) ==
    LET result == json_loads(response, StripFence(Content(response.fence, response.body)))
        is_safe == IF result.has_is_safe THEN Truthy(result.is_safe) ELSE TRUE
    IN  IF response.raises \/ result.kind # "object"
        THEN [is_malicious |-> FALSE, risk_level |-> "low",
              reason |-> ReasonFailed, category |-> "none"]
        ELSE [is_malicious |-> ~is_safe,
              risk_level |-> IF ~is_safe THEN "high" ELSE "low",
              reason |-> IF result.has_explanation THEN result.explanation ELSE ReasonUnknown,
              category |-> "none"]

\* validate_input (safety.py lines 79-105)
validate_input(query, response) ==
    LET llm_result == validate_input_llm(query, response)
    IN  [is_safe |-> ~llm_result.is_malicious,
         risk_level |-> llm_result.risk_level,
         reason |-> llm_result.reason,
         should_block |-> llm_result.is_malicious]

\* safety.py line 138: the low-confidence threshold, 0.4
LowConfidence == 400

\* float('nan') as a score: what float() makes of the JSON literal NaN and
\* of the string "nan" (langgraph_workflow.py line 273). It is no number of
\* thousandths, and every comparison with it is false.
NaNScore == 0 - 1000000

\* x < y for two floats
Below(x, y) == x # NaNScore /\ y # NaNScore /\ x < y

\* x >= y for two floats
NotBelow(x, y) == x # NaNScore /\ y # NaNScore /\ x >= y

\* confidence_score * 0.8 (safety.py line 141)
Times08(confidence_score) ==
    IF confidence_score = NaNScore THEN NaNScore ELSE (confidence_score * 8) \div 10

\* detect_hallucination with the rule for no sources before the rule for a
\* low confidence.
detect_hallucination_EmptyFirst(answer, retrieved_chunks, confidence_score) ==
    IF retrieved_chunks = <<>>
    THEN [hallucination_flag |-> TRUE, confidence |-> 0,
          reason |-> "No source context provided",
          grounded_claims |-> 0, total_claims |-> 0]
    ELSE IF Below(confidence_score, LowConfidence)
    THEN [hallucination_flag |-> TRUE, confidence |-> Times08(confidence_score),
          reason |-> "Low confidence score indicates weak source grounding",
          grounded_claims |-> 0, total_claims |-> 0]
    ELSE [hallucination_flag |-> FALSE, confidence |-> confidence_score,
          reason |-> "Confidence and sources look reasonable",
          grounded_claims |-> 0, total_claims |-> 0]

\* detect_hallucination whose rule for no sources leaves the confidence.
detect_hallucination_KeepsConfidence(answer, retrieved_chunks, confidence_score) ==
    IF Below(confidence_score, LowConfidence)
    THEN [hallucination_flag |-> TRUE, confidence |-> Times08(confidence_score),
          reason |-> "Low confidence score indicates weak source grounding",
          grounded_claims |-> 0, total_claims |-> 0]
    ELSE [hallucination_flag |-> retrieved_chunks = <<>>, confidence |-> confidence_score,
          reason |-> IF retrieved_chunks = <<>> THEN "No source context provided"
                     ELSE "Confidence and sources look reasonable",
          grounded_claims |-> 0, total_claims |-> 0]

\* detect_hallucination (safety.py lines 110-164)
detect_hallucination(answer, retrieved_chunks, confidence_score) ==
    IF Below(confidence_score, LowConfidence)
    THEN [hallucination_flag |-> TRUE, confidence |-> Times08(confidence_score),
          reason |-> "Low confidence score indicates weak source grounding",
          grounded_claims |-> 0, total_claims |-> 0]
    ELSE IF retrieved_chunks = <<>>
    THEN [hallucination_flag |-> TRUE, confidence |-> 0,
          reason |-> "No source context provided",
          grounded_claims |-> 0, total_claims |-> 0]
    ELSE [hallucination_flag |-> FALSE, confidence |-> confidence_score,
          reason |-> "Confidence and sources look reasonable",
          grounded_claims |-> 0, total_claims |-> 0]

(***************************************************************************)
(* The workflow stages (agents/langgraph_workflow.py). What a stage does   *)
(* is the state it returns, or the exception that leaves it.               *)
(***************************************************************************)
Outcome(state) == [raised |-> FALSE, exc |-> None, state |-> state]

Abort(exc, state) == [raised |-> TRUE, exc |-> exc, state |-> state]

\* state.py line 65: the values of query_type
QueryTypes == {"factual", "comparative", "summarization", "calculation"}

\* What the model may put under the key query_type.
QueryTypeOutputs == QueryTypes \cup {"other"}

\* The most entities the model lists.
MaxEntities == 4

EntityNames == [i \in 1..MaxEntities |-> <<"E", CHOOSE c \in DigitChars : DigitValue(c) = i>>]

\* What the model may put under the key entities.
EntityOutputs == {<<>>, Take(EntityNames, 2), EntityNames}

ClassifierBody == <<"{", "c", "}">>

ClassifierDecodings ==
    {[kind |-> k, has_query_type |-> FALSE, query_type |-> "factual",
      has_entities |-> FALSE, entities |-> <<>>,
      has_requires_calculation |-> FALSE, requires_calculation |-> FALSE] :
        k \in {"malformed", "nonobject"}}
    \cup {d \in [kind : {"object"}, has_query_type : BOOLEAN, query_type : QueryTypeOutputs,
                 has_entities : BOOLEAN, entities : EntityOutputs,
                 has_requires_calculation : BOOLEAN, requires_calculation : BOOLEAN] :
            /\ ~d.has_query_type => d.query_type = "factual"
            /\ ~d.has_entities => d.entities = <<>>
            /\ ~d.has_requires_calculation => d.requires_calculation = FALSE}

ClassifierResponses ==
    {[raises |-> TRUE, fence |-> "none", body |-> ClassifierBody, decoded |-> d] :
        d \in {x \in ClassifierDecodings : x.kind = "malformed"}}
    \cup {[raises |-> FALSE, fence |-> f, body |-> ClassifierBody, decoded |-> d] :
            f \in FenceKinds, d \in ClassifierDecodings}

\* Lines 100-106: what json.loads makes of the content without its fence.
Decoded(response) ==
    json_loads(response, StripFence(Content(response.fence, response.body)))

\* query_analyzer that sets multi_entity when two entities were extracted.
query_analyzer_FlagFromEntities(state, response) ==
    LET analysis == json_loads(response, StripFence(Content(response.fence, response.body)))
        fallback == analysis.kind = "malformed"
        query_type == IF fallback \/ ~analysis.has_query_type
                      THEN "factual" ELSE analysis.query_type
        entities == IF fallback \/ ~analysis.has_entities THEN <<>> ELSE analysis.entities
        requires_calculation == IF fallback \/ ~analysis.has_requires_calculation
                                THEN FALSE ELSE analysis.requires_calculation
    IN  IF response.raises THEN Abort("llm", state)
        ELSE IF analysis.kind = "nonobject" THEN Abort("AttributeError", state)
        ELSE Outcome([state EXCEPT !.query_type = query_type,
                                   !.entities = entities,
                                   !.multi_entity = (Len(entities) >= 2),
                                   !.requires_calculation = requires_calculation])

\* query_analyzer (lines 88-131)
query_analyzer(state, response) ==
    LET analysis == json_loads(response, StripFence(Content(response.fence, response.body)))
        fallback == analysis.kind = "malformed"
        query_type == IF fallback \/ ~analysis.has_query_type
                      THEN "factual" ELSE analysis.query_type
        entities == IF fallback \/ ~analysis.has_entities THEN <<>> ELSE analysis.entities
        requires_calculation == IF fallback \/ ~analysis.has_requires_calculation
                                THEN FALSE ELSE analysis.requires_calculation
    IN  IF response.raises THEN Abort("llm", state)
        ELSE IF analysis.kind = "nonobject" THEN Abort("AttributeError", state)
        ELSE Outcome([state EXCEPT !.query_type = query_type,
                                   !.entities = entities,
                                   !.multi_entity = (query_type = "comparative"),
                                   !.requires_calculation = requires_calculation])

\* Line 149: multi-hop retrieval needs this many entities.
MinEntities == 2

\* Line 151: entities[:3]
EntityLimit == 3

\* Line 153: top_k of a lookup for one entity
EntityTopK == 3

\* Line 166: top_k of the lookup for the query
QueryTopK == 5

\* Lines 156-161 and 169-174: the chunk made of one result
ToChunk(r) ==
    [document |-> r.document, chunk_id |-> r.chunk_id,
     content |-> r.content_snippet, relevance_score |-> r.relevance_score]

\* Lines 155-164: append the results whose chunk_id is not there yet.
RECURSIVE AppendUnique(_, _)
AppendUnique(all_chunks, results) ==
    IF results = <<>> THEN all_chunks
    ELSE LET chunk == ToChunk(Head(results))
         IN  AppendUnique(IF \E i \in 1..Len(all_chunks) :
                                all_chunks[i].chunk_id = chunk.chunk_id
                          THEN all_chunks ELSE Append(all_chunks, chunk),
                          Tail(results))

\* Lines 168-175: append every result.
AppendAll(all_chunks, results) ==
    all_chunks \o [i \in 1..Len(results) |-> ToChunk(results[i])]

\* Lines 181-182: the sort key
has_numbers(chunk) == 0 - CountNumbers(chunk.content, 1)

\* Place chunk after the chunks whose key is not greater (a stable insertion).
RECURSIVE InsertByKey(_, _)
InsertByKey(sorted, chunk) ==
    IF sorted = <<>> THEN <<chunk>>
    ELSE IF has_numbers(Head(sorted)) <= has_numbers(chunk)
    THEN <<Head(sorted)>> \o InsertByKey(Tail(sorted), chunk)
    ELSE <<chunk>> \o sorted

\* all_chunks.sort(key=has_numbers) (line 183): a stable sort
RECURSIVE SortByNumbers(_)
SortByNumbers(chunks) ==
    IF chunks = <<>> THEN <<>>
    ELSE InsertByKey(SortByNumbers(DropLast(chunks, 1)), chunks[Len(chunks)])

MultiHop(state) == state.multi_entity /\ Len(state.entities) >= MinEntities

\* Lookups that looks up every entity.
Lookups_NoLimit(state) ==
    IF MultiHop(state) THEN state.entities ELSE <<state.query>>

\* The queries the stage looks up, in order (lines 149-166).
Lookups(state) ==
    IF MultiHop(state) THEN Take(state.entities, EntityLimit) ELSE <<state.query>>

LookupTopK(state) == IF MultiHop(state) THEN EntityTopK ELSE QueryTopK

\* Lines 149-175 from the lookup i on: answers[i] is what retriever.retrieve
\* does for the lookup i.
RECURSIVE Collect(_, _, _, _)
Collect(state, answers, i, all_chunks) ==
    IF i > Len(Lookups(state)) THEN [raised |-> FALSE, exc |-> None, all_chunks |-> all_chunks, calls |-> i - 1]
    ELSE IF answers[i].raised THEN [raised |-> TRUE, exc |-> answers[i].exc, all_chunks |-> all_chunks, calls |-> i]
    ELSE Collect(state, answers, i + 1,
                 IF MultiHop(state) THEN AppendUnique(all_chunks, answers[i].results)
                 ELSE AppendAll(all_chunks, answers[i].results))

\* retrieval_agent that also writes back the entities it looked up.
retrieval_agent_TruncatesEntities(state, answers) ==
    IF Collect(state, answers, 1, <<>>).raised
    THEN Abort(Collect(state, answers, 1, <<>>).exc, state)
    ELSE Outcome([state EXCEPT
                    !.entities = Take(state.entities, EntityLimit),
                    !.retrieved_chunks =
                        IF state.requires_calculation
                        THEN SortByNumbers(Collect(state, answers, 1, <<>>).all_chunks)
                        ELSE Collect(state, answers, 1, <<>>).all_chunks])

\* retrieval_agent (lines 136-188)
retrieval_agent(state, answers) ==
    LET collected == Collect(state, answers, 1, <<>>)
        all_chunks == IF state.requires_calculation
                      THEN SortByNumbers(collected.all_chunks) ELSE collected.all_chunks
    IN  IF collected.raised THEN Abort(collected.exc, state)
        ELSE Outcome([state EXCEPT !.retrieved_chunks = all_chunks])

\* Line 222: a calculation needs this many numbers.
MinNumbers == 2

\* calculation_result of a state in which nothing was calculated: None.
NullResult == [null |-> TRUE, value |-> CalcFailure(<<>>, None)]

SomeResult(result) == [null |-> FALSE, value |-> result]

\* Line 219: query + " " + " ".join(c["content"] for c in retrieved_chunks)
AllText(query, retrieved_chunks) ==
    query \o <<" ">>
          \o JoinSpace([i \in 1..Len(retrieved_chunks) |-> retrieved_chunks[i].content])

\* Lines 229-241: the expression for two cleaned numbers
Expression(query, a, b) ==
    LET query_lower == LowerText(query)
    IN  IF ContainsAny(query_lower, AddWords) THEN a \o <<" ", "+", " ">> \o b
        ELSE IF ContainsAny(query_lower, SubWords) THEN a \o <<" ", "-", " ">> \o b
        ELSE IF ContainsAny(query_lower, MulWords) THEN a \o <<" ", "*", " ">> \o b
        ELSE IF ContainsAny(query_lower, DivWords) THEN a \o <<" ", "/", " ">> \o b
        ELSE IF ContainsAny(query_lower, AvgWords)
        THEN <<"(">> \o a \o <<" ", "+", " ">> \o b \o <<")", " ", "/", " ", "2">>
        ELSE a \o <<" ", "+", " ">> \o b

\* Lines 213-249: whether the calculator is called, with what, what it returns
\* and whether the prompt gets the calculation instruction.
Calculation(state) ==
    LET numbers == FindNumbers(AllText(state.query, state.retrieved_chunks), 1)
        called == state.requires_calculation /\ Len(numbers) >= MinNumbers
        expression == IF called
                      THEN Expression(state.query, StripCommas(numbers[1]), StripCommas(numbers[2]))
                      ELSE <<>>
        calculation_result == IF called THEN SomeResult(safe_calculator(expression))
                              ELSE NullResult
    IN  [called |-> called, expression |-> expression,
         calculation_result |-> calculation_result,
         instruction |-> called /\ calculation_result.value.success]

AnswerText == <<"a", "n", "s">>

\* Line 271: the answer of an object without the key answer
DefaultAnswer == <<"U", "n", "a", "b", "l", "e", " ", "t", "o", " ", "g", "e", "n", "e", "r", "a", "t", "e", " ", "a", "n", "s", "w", "e", "r", ".">>

SynthesizerBody == <<"{", "a", "}">>

Citation(document, chunk_id, quote) ==
    [document |-> document, chunk_id |-> chunk_id, quote |-> quote]

\* An item of the list under the key citations: an object with all three
\* keys, an object with none, or a value that is no object.
CitationItems ==
    {[is_object |-> TRUE, has_keys |-> TRUE, value |-> Citation("a.pdf", "c1", <<"x">>)],
     [is_object |-> TRUE, has_keys |-> FALSE, value |-> Citation(None, None, <<>>)],
     [is_object |-> FALSE, has_keys |-> FALSE, value |-> Citation(None, None, <<>>)]}

CitationOutputs == {<<>>} \cup {<<c>> : c \in CitationItems}

\* What the model may put under the key confidence_score, in thousandths:
\* a number, NaN among them, a string that reads as a number, another
\* string, or null.
ConfidenceOutputs ==
    {[t |-> "number", v |-> v] : v \in {300, 400, 900, 1500, NaNScore}}
    \cup {[t |-> "numeric_string", v |-> 900], [t |-> "word", v |-> 0], [t |-> "null", v |-> 0]}

SynthesisObject(has_answer, has_citations, citations, has_confidence_score, confidence_score, has_has_sufficient_context, has_sufficient_context) ==
    [kind |-> "object",
     has_answer |-> has_answer, answer |-> IF has_answer THEN AnswerText ELSE DefaultAnswer,
     has_citations |-> has_citations, citations |-> citations,
     has_confidence_score |-> has_confidence_score, confidence_score |-> confidence_score,
     has_has_sufficient_context |-> has_has_sufficient_context,
     has_sufficient_context |-> has_sufficient_context]

NullValue == [t |-> "null", v |-> 0]

\* What the synthesis model may answer: no JSON, JSON that is no object, and
\* objects that have or lack each key.
SynthesizerDecodings ==
    {[SynthesisObject(FALSE, FALSE, <<>>, FALSE, NullValue, FALSE, TRUE) EXCEPT !.kind = k] :
        k \in {"malformed", "nonobject"}}
    \cup {SynthesisObject(a, TRUE, <<>>, TRUE, [t |-> "number", v |-> 900], TRUE, TRUE) :
            a \in BOOLEAN}
    \cup {SynthesisObject(TRUE, TRUE, c, TRUE, [t |-> "number", v |-> 900], TRUE, TRUE) :
            c \in CitationOutputs}
    \cup {SynthesisObject(TRUE, FALSE, <<>>, TRUE, c, TRUE, h) :
            c \in ConfidenceOutputs, h \in BOOLEAN}
    \cup {SynthesisObject(TRUE, FALSE, <<>>, FALSE, NullValue, h, TRUE) : h \in BOOLEAN}
    \cup {SynthesisObject(TRUE, FALSE, <<>>, TRUE, c, FALSE, TRUE) :
            c \in {[t |-> "number", v |-> 300], NullValue}}

SynthesizerResponses ==
    {[raises |-> TRUE, fence |-> "none", body |-> SynthesizerBody, decoded |-> d] :
        d \in {x \in SynthesizerDecodings : x.kind = "malformed"}}
    \cup {[raises |-> FALSE, fence |-> "none", body |-> SynthesizerBody, decoded |-> d] :
            d \in SynthesizerDecodings}
    \cup {[raises |-> FALSE, fence |-> f, body |-> SynthesizerBody, decoded |-> d] :
            f \in FenceKinds,
            d \in {x \in SynthesizerDecodings : x.kind = "malformed" \/ x.citations # <<>>}}

\* Line 273: the confidence of an object without the key confidence_score, 0.5
DefaultConfidence == 500

\* Line 290: the confidence of the fallback response, 0.3
FallbackConfidence == 300

\* Line 294: the least confidence that passes the verification, 0.4
VerificationThreshold == 400

\* float(x) for a value under the key confidence_score (line 273)
ToConfidence(x) ==
    CASE x.t \in {"number", "numeric_string"} -> [raised |-> FALSE, exc |-> None, v |-> x.v]
      [] x.t = "word" -> [raised |-> TRUE, exc |-> "ValueError", v |-> 0]
      [] x.t = "null" -> [raised |-> TRUE, exc |-> "TypeError", v |-> 0]

\* Lines 277-284: the citation made of one item
ToCitation(c) ==
    IF c.has_keys THEN c.value ELSE Citation("Unknown", "", <<>>)

\* synthesizer_agent (lines 193-303)
synthesizer_agent(state, response) ==
    LET calculation == Calculation(state)
        content == Content(response.fence, response.body)
        synthesis == json_loads(response, StripFence(content))
        confidence == IF synthesis.has_confidence_score
                      THEN ToConfidence(synthesis.confidence_score)
                      ELSE [raised |-> FALSE, exc |-> None, v |-> DefaultConfidence]
        fallback == synthesis.kind = "malformed"
        answer == IF fallback THEN content ELSE synthesis.answer
        citations == IF fallback THEN <<>>
                     ELSE [i \in 1..Len(synthesis.citations) |-> ToCitation(synthesis.citations[i])]
        confidence_score == IF fallback THEN FallbackConfidence ELSE confidence.v
        has_sufficient_context == IF fallback THEN Len(state.retrieved_chunks) > 0
                                  ELSE synthesis.has_sufficient_context
        verification_passed == has_sufficient_context
                               /\ NotBelow(confidence_score, VerificationThreshold)
    IN  IF response.raises THEN Abort("llm", state)
        ELSE IF synthesis.kind = "nonobject" THEN Abort("AttributeError", state)
        ELSE IF ~fallback /\ confidence.raised THEN Abort(confidence.exc, state)
        ELSE IF ~fallback /\ \E i \in 1..Len(synthesis.citations) : ~synthesis.citations[i].is_object
        THEN Abort("AttributeError", state)
        ELSE Outcome([state EXCEPT !.calculation_result = calculation.calculation_result,
                                   !.answer = answer,
                                   !.citations = citations,
                                   !.confidence_score = confidence_score,
                                   !.verification_passed = verification_passed])

(***************************************************************************)
(* The collaborators of the retriever: the points in the index and how the *)
(* index, the embedding and the rerank calls behave for one retrieve call. *)
(***************************************************************************)
PointA == Payload("c1", <<"x", " ", "7">>, <<>>, "a.pdf", NoMeta)

\* The chunk_id of PointA with another text and filename.
PointB == Payload("c1", <<"y">>, <<>>, "b.pdf", NoMeta)

\* A point whose chunk_id is in the nested metadata, its text under page_content.
PointC == Payload(None, <<>>, <<"3", " ", "4">>, None, Meta("c2", <<>>, "m.pdf"))

\* A point without text.
PointD == Payload("c3", <<>>, <<>>, "d.pdf", NoMeta)

\* The queries of the requests.
Queries == {<<"h", "i">>, <<"s", "u", "m", " ", "5", " ", "3">>, <<"r", "a", "t", "i", "o", " ", "4", " ", "0">>}

\* The hit lists a search may return.
HitLists == {<<>>, <<PointA>>, <<PointC, PointA>>, <<PointB>>}

\* Hit lists whose points yield no document.
BadHitLists == {<<PointD>>, <<EmptyPayload>>, <<PointD, PointA>>}

RerankPolicies == {"fail", "ranked", "reversed", "bad_index"}

Env(count, embed, vector, scroll, semantic, keyword, rerank) ==
    [count |-> count, embed |-> embed, vector |-> vector, scroll |-> scroll,
     semantic |-> semantic, keyword |-> keyword, rerank |-> rerank]

Envs ==
    {Env(c, "ok", "ok", "ok", <<>>, <<>>, "ranked") : c \in {"fail", "zero"}}
    \cup {Env("some", "fail", "ok", "ok", <<>>, <<>>, "ranked"),
          Env("some", "ok", "fail", "ok", <<>>, <<>>, "ranked"),
          Env("some", "ok", "ok", "fail", <<PointA>>, <<>>, "ranked")}
    \cup {Env("some", "ok", "ok", "ok", s, k, "ranked") : s \in HitLists, k \in HitLists}
    \cup {Env("some", "ok", "ok", "ok", <<PointC, PointA>>, <<PointB>>, r) : r \in RerankPolicies}
    \cup {Env("some", "ok", "ok", "ok", s, <<>>, "ranked") : s \in BadHitLists}

\* The texts looked up: the queries and the entity names.
LookupTexts == Queries \cup {EntityNames[i] : i \in 1..MaxEntities}

\* What retriever.retrieve may do for a lookup of an entity.
EntityAnswers == {retrieve(q, EntityTopK, env) : q \in LookupTexts, env \in Envs}

\* What retriever.retrieve may do for the lookup of the query.
QueryAnswers == {retrieve(q, QueryTopK, env) : q \in LookupTexts, env \in Envs}

\* What retriever.retrieve may do for each lookup of the stage.
Answers(state) ==
    [1..Len(Lookups(state)) -> IF MultiHop(state) THEN EntityAnswers ELSE QueryAnswers]

(***************************************************************************)
(* run_rag_query (lines 339-400) as a state machine, and the calculator    *)
(* called on its own.                                                      *)
(***************************************************************************)
VARIABLES pc, query, enable_safety, validation_result, state, final_state,
          hallucination_result, trace, raised, retrieve_calls, expression, calc_result

\* A stage called on its own: the model's response to the classifier, and
\* what each retriever.retrieve call of the retrieval stage does.
VARIABLES llm_response, retriever_answers

\* retriever.retrieve called on its own: the collaborators' behaviour, top_k,
\* the candidates after the merge (unique_docs) and what the call did.
VARIABLES env, top_k, unique_docs, retrieved

\* get_qdrant_client called by concurrent callers: the module global _client,
\* the clients constructed so far, whether QDRANT_URL is set, and for each
\* caller its place in the function, the client it constructed and what the
\* call returned or raised.
VARIABLES client, created, qdrant_url, caller_pc, constructed, got, locked

stage_vars == <<llm_response, retriever_answers>>

retriever_vars == <<env, top_k, unique_docs, retrieved>>

client_vars == <<client, created, qdrant_url, caller_pc, constructed, got, locked>>

vars == <<pc, query, enable_safety, validation_result, state, final_state,
          hallucination_result, trace, raised, retrieve_calls, expression, calc_result,
          stage_vars, retriever_vars, client_vars>>

\* No stage is called on its own.
NoStageCall == llm_response = None /\ retriever_answers = <<>>

\* retriever.retrieve is not called on its own.
NoRetrieverCall ==
    /\ env = Env("zero", "ok", "ok", "ok", <<>>, <<>>, "ranked")
    /\ top_k = 0
    /\ unique_docs = <<>>
    /\ retrieved = Returned(<<>>, <<>>)

\* Line 7 of utils/qdrant.py: _client = None. A client is named by the
\* number of its construction, from 1, and 0 stands for None.
NoClient == 0

\* get_qdrant_client has no caller.
NoClientCall ==
    /\ client = NoClient
    /\ created = 0
    /\ qdrant_url = FALSE
    /\ caller_pc = <<>>
    /\ constructed = <<>>
    /\ got = <<>>
    /\ locked = FALSE

BlockedPrefix == <<"Q", "u", "e", "r", "y", " ", "b", "l", "o", "c", "k", "e", "d", ":", " ">>

\* Lines 375-387: initial_state
InitialState(q) ==
    [query |-> q, query_type |-> "factual", entities |-> <<>>,
     multi_entity |-> FALSE, requires_calculation |-> FALSE,
     retrieved_chunks |-> <<>>, calculation_result |-> NullResult,
     answer |-> <<>>, citations |-> <<>>, confidence_score |-> 0,
     verification_passed |-> FALSE]

\* Lines 355-367: the state returned for a blocked query
BlockedState(q, reason) ==
    [query |-> q, query_type |-> "blocked", entities |-> <<>>,
     multi_entity |-> FALSE, requires_calculation |-> FALSE,
     retrieved_chunks |-> <<>>, calculation_result |-> NullResult,
     answer |-> BlockedPrefix \o reason, citations |-> <<>>, confidence_score |-> 0,
     verification_passed |-> FALSE]

\* No state yet: run_rag_query has built none.
NoState(q) == [InitialState(q) EXCEPT !.query_type = None]

\* No validation result yet, or none at all.
NoValidation ==
    [is_safe |-> TRUE, risk_level |-> None, reason |-> <<>>, should_block |-> FALSE]

\* No hallucination result yet, or none at all.
NoHallucinationResult ==
    [hallucination_flag |-> FALSE, confidence |-> 0, reason |-> None,
     grounded_claims |-> 0, total_claims |-> 0]

NoCalcResult == CalcFailure(<<>>, None)

\* The state when run_rag_query(query, enable_safety) is entered.
Init ==
    /\ pc = "start"
    /\ query \in Queries
    /\ enable_safety \in BOOLEAN
    /\ validation_result = NoValidation
    /\ state = NoState(query)
    /\ final_state = NoState(query)
    /\ hallucination_result = NoHallucinationResult
    /\ trace = <<>>
    /\ raised = None
    /\ retrieve_calls = 0
    /\ expression = <<>>
    /\ calc_result = NoCalcResult
    /\ NoStageCall
    /\ NoRetrieverCall
    /\ NoClientCall

\* InputGuard that builds the blocked state and does not return it.
InputGuard_FallsThrough ==
    /\ pc = "start"
    /\ \E response \in SafetyResponses :
        validation_result' = IF enable_safety THEN validate_input(query, response)
                             ELSE NoValidation
    /\ state' = IF enable_safety /\ validation_result'.should_block
                THEN BlockedState(query, validation_result'.reason)
                ELSE InitialState(query)
    /\ pc' = "classify"
    /\ trace' = IF enable_safety THEN Append(trace, "validate_input") ELSE trace
    /\ UNCHANGED <<query, enable_safety, final_state, hallucination_result, raised,
                   retrieve_calls, expression, calc_result, stage_vars,
                   retriever_vars, client_vars>>

\* Lines 349-387: the input validation, then the blocked state or initial_state
InputGuard ==
    /\ pc = "start"
    /\ \E response \in SafetyResponses :
        validation_result' = IF enable_safety THEN validate_input(query, response)
                             ELSE NoValidation
    /\ IF enable_safety /\ validation_result'.should_block
       THEN /\ state' = BlockedState(query, validation_result'.reason)
            /\ pc' = "blocked"
       ELSE /\ state' = InitialState(query)
            /\ pc' = "classify"
    /\ trace' = IF enable_safety THEN Append(trace, "validate_input") ELSE trace
    /\ UNCHANGED <<query, enable_safety, final_state, hallucination_result, raised,
                   retrieve_calls, expression, calc_result, stage_vars,
                   retriever_vars, client_vars>>

\* The node query_analyzer of the graph (lines 316, 321-322)
QueryAnalyzer ==
    /\ pc = "classify"
    /\ \E response \in ClassifierResponses :
        /\ state' = query_analyzer(state, response).state
        /\ raised' = query_analyzer(state, response).exc
    /\ pc' = IF raised' # None THEN "raised" ELSE "retrieve"
    /\ trace' = Append(trace, "query_analyzer")
    /\ UNCHANGED <<query, enable_safety, validation_result, final_state,
                   hallucination_result, retrieve_calls, expression, calc_result, stage_vars,
                   retriever_vars, client_vars>>

\* The node retrieval_agent of the graph (lines 317, 323)
RetrievalAgent ==
    /\ pc = "retrieve"
    /\ \E answers \in Answers(state) :
        /\ state' = retrieval_agent(state, answers).state
        /\ raised' = retrieval_agent(state, answers).exc
        /\ retrieve_calls' = Collect(state, answers, 1, <<>>).calls
    /\ pc' = IF raised' # None THEN "raised" ELSE "synthesize"
    /\ trace' = Append(trace, "retrieval_agent")
    /\ UNCHANGED <<query, enable_safety, validation_result, final_state,
                   hallucination_result, expression, calc_result, stage_vars,
                   retriever_vars, client_vars>>

\* The node synthesizer_agent of the graph (lines 318, 324) and the return of
\* app.invoke (line 390)
SynthesizerAgent ==
    /\ pc = "synthesize"
    /\ \E response \in SynthesizerResponses :
        /\ state' = synthesizer_agent(state, response).state
        /\ raised' = synthesizer_agent(state, response).exc
    /\ pc' = IF raised' # None THEN "raised" ELSE "guard"
    /\ final_state' = IF raised' # None THEN final_state ELSE state'
    /\ trace' = Append(trace, "synthesizer_agent")
    /\ UNCHANGED <<query, enable_safety, validation_result, hallucination_result,
                   retrieve_calls, expression, calc_result, stage_vars,
                   retriever_vars, client_vars>>

\* OutputGuardrails that leaves verification_passed as the synthesizer set it.
OutputGuardrails_KeepsVerification ==
    /\ pc = "guard"
    /\ IF enable_safety
       THEN /\ hallucination_result' =
                detect_hallucination(final_state.answer, final_state.retrieved_chunks,
                                     final_state.confidence_score)
            /\ state' = [final_state EXCEPT
                            !.confidence_score = hallucination_result'.confidence]
            /\ trace' = Append(trace, "detect_hallucination")
       ELSE /\ state' = final_state
            /\ UNCHANGED <<hallucination_result, trace>>
    /\ pc' = "done"
    /\ UNCHANGED <<query, enable_safety, validation_result, final_state, raised,
                   retrieve_calls, expression, calc_result, stage_vars,
                   retriever_vars, client_vars>>

\* OutputGuardrails that calls the verifier whether safety is enabled or not.
OutputGuardrails_AlwaysVerifies ==
    /\ pc = "guard"
    /\ hallucination_result' =
        detect_hallucination(final_state.answer, final_state.retrieved_chunks,
                             final_state.confidence_score)
    /\ state' = [final_state EXCEPT
                    !.confidence_score = hallucination_result'.confidence,
                    !.verification_passed = ~hallucination_result'.hallucination_flag]
    /\ trace' = Append(trace, "detect_hallucination")
    /\ pc' = "done"
    /\ UNCHANGED <<query, enable_safety, validation_result, final_state, raised,
                   retrieve_calls, expression, calc_result, stage_vars,
                   retriever_vars, client_vars>>

\* Lines 392-400: the output guardrails and the return
OutputGuardrails ==
    /\ pc = "guard"
    /\ IF enable_safety
       THEN /\ hallucination_result' =
                detect_hallucination(final_state.answer, final_state.retrieved_chunks,
                                     final_state.confidence_score)
            /\ state' = [final_state EXCEPT
                            !.confidence_score = hallucination_result'.confidence,
                            !.verification_passed = ~hallucination_result'.hallucination_flag]
            /\ trace' = Append(trace, "detect_hallucination")
       ELSE /\ state' = final_state
            /\ UNCHANGED <<hallucination_result, trace>>
    /\ pc' = "done"
    /\ UNCHANGED <<query, enable_safety, validation_result, final_state, raised,
                   retrieve_calls, expression, calc_result, stage_vars,
                   retriever_vars, client_vars>>

Next ==
    \/ InputGuard
    \/ QueryAnalyzer
    \/ RetrievalAgent
    \/ SynthesizerAgent
    \/ OutputGuardrails

Spec == Init /\ [][Next]_vars

(***************************************************************************)
(* safe_calculator called on its own, for every expression of a bounded    *)
(* set.                                                                    *)
(***************************************************************************)
\* The characters of the expressions tried in full.
CalcAlphabet == {"0", "2", "-", "*", "/", "%", "^", "(", ")", ".", " ", "a"}

DigitOf(n) == CHOOSE c \in DigitChars : DigitValue(c) = n

\* An integer operand as it is written: its sign, if negative, and its digit.
Numeral(n) == IF n < 0 THEN <<"-", DigitOf(0 - n)>> ELSE <<DigitOf(n)>>

\* The operands of the two-operand expressions.
Operands == (0 - MaxOperand)..MaxOperand

\* The keys of OPERATORS (tools.py lines 9-18), as written.
OperatorTexts ==
    {<<"+">>, <<"-">>, <<"*">>, <<"/">>, <<"/", "/">>, <<"%">>, <<"^">>, <<"*", "*">>}

\* The expression 'a op b'.
TwoOperandOf(a, op, b) == Numeral(a) \o <<" ">> \o op \o <<" ">> \o Numeral(b)

\* The two-operand expressions 'a op b' over the bounded operands.
TwoOperand == {TwoOperandOf(a, op, b) : a \in Operands, b \in Operands, op \in OperatorTexts}

\* Expressions of the docstring and of the tests of tools.py, and expressions
\* whose value leaves the range of a float.
NamedExpressions ==
    {<<"5", " ", "+", " ", "3">>, <<"1", "0", " ", "/", " ", "0">>, <<"2", " ", "+", " ", ")">>, <<"a", "b", "c">>, <<"(", "1", "0", " ", "-", " ", "4", ")", " ", "/", " ", "2">>, <<"2", "^", "2", "2", "2", "2">>, <<"2", ".", "^", "2", "2", "2", "2">>, <<"2", "^", "1", "0", "2", "3", "*", "2", ".">>, <<"2", "^", "1", "0", "2", "3", "*", "2", ".", "-", "2", "^", "1", "0", "2", "3", "*", "2", ".">>}

CalcInputs ==
    UNION {[1..n -> CalcAlphabet] : n \in 0..MaxLen} \cup TwoOperand \cup NamedExpressions

InitCalc ==
    /\ pc = "calc"
    /\ expression \in CalcInputs
    /\ calc_result = NoCalcResult
    /\ query = <<>>
    /\ enable_safety = FALSE
    /\ validation_result = NoValidation
    /\ state = NoState(<<>>)
    /\ final_state = NoState(<<>>)
    /\ hallucination_result = NoHallucinationResult
    /\ trace = <<>>
    /\ raised = None
    /\ retrieve_calls = 0
    /\ NoStageCall
    /\ NoRetrieverCall
    /\ NoClientCall

\* A call of safe_calculator(expression)
Calculate ==
    /\ pc = "calc"
    /\ calc_result' = safe_calculator(expression)
    /\ pc' = "returned"
    /\ UNCHANGED <<query, enable_safety, validation_result, state, final_state,
                   hallucination_result, trace, raised, retrieve_calls, expression,
                   stage_vars, retriever_vars, client_vars>>

NextCalc == Calculate

SpecCalc == InitCalc /\ [][NextCalc]_vars

(***************************************************************************)
(* detect_hallucination called on its own, for every confidence and chunk  *)
(* list of a bounded set.                                                  *)
(***************************************************************************)
\* The greatest confidence tried, in hundredths.
MaxConfidence == 120

\* The confidences tried, in thousandths: from below 0 to above 1.
ConfidenceInputs == {10 * c : c \in (0 - 5)..MaxConfidence}

ChunkOf(payload) ==
    [document |-> normalize_payload(payload).filename,
     chunk_id |-> normalize_payload(payload).chunk_id,
     content |-> normalize_payload(payload).text, relevance_score |-> 900]

ChunkInputs == {<<>>, <<ChunkOf(PointA)>>, <<ChunkOf(PointC), ChunkOf(PointA)>>}

InitVerify ==
    /\ pc = "verify"
    /\ \E c \in ConfidenceInputs, chunks \in ChunkInputs :
        final_state = [InitialState(<<>>) EXCEPT !.answer = AnswerText,
                                                  !.retrieved_chunks = chunks,
                                                  !.confidence_score = c]
    /\ state = final_state
    /\ hallucination_result = NoHallucinationResult
    /\ query = <<>>
    /\ enable_safety = TRUE
    /\ validation_result = NoValidation
    /\ trace = <<>>
    /\ raised = None
    /\ retrieve_calls = 0
    /\ expression = <<>>
    /\ calc_result = NoCalcResult
    /\ NoStageCall
    /\ NoRetrieverCall
    /\ NoClientCall

\* A call of detect_hallucination(answer, retrieved_chunks, confidence_score)
DetectHallucination ==
    /\ pc = "verify"
    /\ hallucination_result' =
        detect_hallucination(final_state.answer, final_state.retrieved_chunks,
                             final_state.confidence_score)
    /\ pc' = "verified"
    /\ trace' = Append(trace, "detect_hallucination")
    /\ UNCHANGED <<query, enable_safety, validation_result, state, final_state, raised,
                   retrieve_calls, expression, calc_result, stage_vars,
                   retriever_vars, client_vars>>

NextVerify == DetectHallucination

SpecVerify == InitVerify /\ [][NextVerify]_vars

(***************************************************************************)
(* query_analyzer called on its own, for every response of the model.      *)
(***************************************************************************)
\* No request is running: the variables of run_rag_query that a single call
\* does not use.
NoRequest ==
    /\ enable_safety = FALSE
    /\ validation_result = NoValidation
    /\ hallucination_result = NoHallucinationResult
    /\ expression = <<>>
    /\ calc_result = NoCalcResult

InitClassify ==
    /\ pc = "classify_call"
    /\ query \in Queries
    /\ state = InitialState(query)
    /\ final_state = NoState(query)
    /\ llm_response \in ClassifierResponses
    /\ retriever_answers = <<>>
    /\ trace = <<>>
    /\ raised = None
    /\ retrieve_calls = 0
    /\ NoRequest
    /\ NoRetrieverCall
    /\ NoClientCall

\* A call of query_analyzer(state) to which the model answers llm_response
Classify ==
    /\ pc = "classify_call"
    /\ state' = query_analyzer(state, llm_response).state
    /\ raised' = query_analyzer(state, llm_response).exc
    /\ pc' = IF raised' # None THEN "classify_raised" ELSE "classified"
    /\ trace' = Append(trace, "query_analyzer")
    /\ UNCHANGED <<query, enable_safety, validation_result, final_state,
                   hallucination_result, retrieve_calls, expression, calc_result,
                   stage_vars, retriever_vars, client_vars>>

NextClassify == Classify

SpecClassify == InitClassify /\ [][NextClassify]_vars

(***************************************************************************)
(* retriever.retrieve called on its own, for the hits of the two searches  *)
(* in every order and every behaviour of the collaborators.                *)
(***************************************************************************)
\* The most hits one search returns here.
MaxHits == 2

\* A point with a chunk_id of its own.
PointE == Payload("c3", <<"z">>, <<>>, "e.pdf", NoMeta)

\* The points of the index.
Points == {PointA, PointB, PointC, PointD, PointE}

\* The hit lists of a search: the points in every order, and a point
\* without payload.
AllHitLists == UNION {[1..n -> Points] : n \in 0..MaxHits} \cup {<<EmptyPayload>>}

\* The collaborators all working, for every pair of hit lists.
WorkingEnvs ==
    {Env("some", "ok", "ok", "ok", s, k, "ranked") : s \in AllHitLists, k \in AllHitLists}

\* Each failure and each rerank behaviour, for hit lists with a duplicate.
FailingEnvs ==
    {Env(c, e[1], e[2], e[3], <<PointC, PointA>>, k, r) :
        c \in {"fail", "zero", "some"},
        e \in {<<"ok", "ok", "ok">>, <<"fail", "ok", "ok">>,
               <<"ok", "fail", "ok">>, <<"ok", "ok", "fail">>},
        k \in {<<>>, <<PointB>>, <<PointB, PointE>>},
        r \in RerankPolicies}

InitRetrieve ==
    /\ pc = "retrieve_call"
    /\ query \in {<<"h", "i">>}
    /\ \/ env \in WorkingEnvs /\ top_k = QueryTopK
       \/ env \in FailingEnvs /\ top_k \in {1, EntityTopK, QueryTopK}
    /\ unique_docs = <<>>
    /\ retrieved = Returned(<<>>, <<>>)
    /\ state = NoState(query)
    /\ final_state = NoState(query)
    /\ trace = <<>>
    /\ raised = None
    /\ retrieve_calls = 0
    /\ NoRequest
    /\ NoStageCall
    /\ NoClientCall

\* A call of retriever.retrieve(query, top_k); unique_docs is the list of
\* line 71, when the call gets there.
Retrieve ==
    /\ pc = "retrieve_call"
    /\ retrieved' = retrieve(query, top_k, env)
    /\ unique_docs' = IF "keyword" \in Range(retrieved'.calls) /\ ~retrieved'.raised
                      THEN MergeCandidates(<<>>, env.semantic \o env.keyword)
                      ELSE <<>>
    /\ raised' = retrieved'.exc
    /\ pc' = IF retrieved'.raised THEN "retrieve_raised" ELSE "retrieve_returned"
    /\ UNCHANGED <<query, enable_safety, validation_result, state, final_state,
                   hallucination_result, trace, retrieve_calls, expression, calc_result,
                   env, top_k, stage_vars, client_vars>>

NextRetrieve == Retrieve

SpecRetrieve == InitRetrieve /\ [][NextRetrieve]_vars

(***************************************************************************)
(* retrieval_agent called on its own, for every state the classifier may   *)
(* return and everything the retriever may do for each lookup.             *)
(***************************************************************************)
\* The states the classifier returns.
ClassifiedStates ==
    {query_analyzer(InitialState(q), r).state :
        q \in Queries, r \in {x \in ClassifierResponses : x.fence = "none" /\ ~x.raises}}

InitRetrievalAgent ==
    /\ pc = "retrieval_call"
    /\ state \in ClassifiedStates
    /\ query = state.query
    /\ final_state = NoState(query)
    /\ llm_response = None
    /\ retriever_answers \in Answers(state)
    /\ trace = <<"query_analyzer">>
    /\ raised = None
    /\ retrieve_calls = 0
    /\ NoRequest
    /\ NoRetrieverCall
    /\ NoClientCall

\* A call of retrieval_agent(state) in which the retriever does, for each
\* lookup, what retriever_answers says
CallRetrievalAgent ==
    /\ pc = "retrieval_call"
    /\ state' = retrieval_agent(state, retriever_answers).state
    /\ raised' = retrieval_agent(state, retriever_answers).exc
    /\ retrieve_calls' = Collect(state, retriever_answers, 1, <<>>).calls
    /\ pc' = IF raised' # None THEN "retrieval_raised" ELSE "retrieval_returned"
    /\ trace' = Append(trace, "retrieval_agent")
    /\ UNCHANGED <<query, enable_safety, validation_result, final_state,
                   hallucination_result, expression, calc_result, stage_vars,
                   retriever_vars, client_vars>>

NextRetrievalAgent == CallRetrievalAgent

SpecRetrievalAgent == InitRetrievalAgent /\ [][NextRetrievalAgent]_vars

(***************************************************************************)
(* get_qdrant_client (utils/qdrant.py lines 7-29) called by concurrent     *)
(* callers, threads of one process. A caller may be suspended between any  *)
(* two steps: the test of line 11, the construction of the client, the     *)
(* assignment to the global and the return are separate steps.             *)
(***************************************************************************)
\* The number of callers.
MaxCallers == 3

Callers == 1..MaxCallers

InitClient ==
    /\ pc = "client_calls"
    /\ client = NoClient
    /\ created = 0
    /\ qdrant_url \in BOOLEAN
    /\ caller_pc = [t \in Callers |-> "test"]
    /\ constructed = [t \in Callers |-> NoClient]
    /\ got = [t \in Callers |-> [raised |-> FALSE, client |-> NoClient, attempts |-> 0]]
    /\ locked \in BOOLEAN
    /\ query = <<>>
    /\ state = NoState(<<>>)
    /\ final_state = NoState(<<>>)
    /\ trace = <<>>
    /\ raised = None
    /\ retrieve_calls = 0
    /\ NoRequest
    /\ NoStageCall
    /\ NoRetrieverCall

\* What a step of a caller leaves alone.
ClientFrame ==
    UNCHANGED <<pc, query, enable_safety, validation_result, state, final_state,
                hallucination_result, trace, raised, retrieve_calls, expression,
                calc_result, stage_vars, retriever_vars, qdrant_url>>

\* Line 11: if _client is None
TestClient(t) ==
    /\ caller_pc[t] = "test"
    /\ caller_pc' = [caller_pc EXCEPT ![t] = IF client = NoClient THEN "construct" ELSE "return"]
    /\ UNCHANGED <<client, created, constructed, got, locked>>
    /\ ClientFrame

\* ConstructClient that swallows the error of the constructor and goes on
\* to return _client.
ConstructClient_SwallowsError(t) ==
    /\ caller_pc[t] = "construct"
    /\ IF qdrant_url \/ (created = 0 /\ ~locked)
       THEN /\ created' = created + 1
            /\ constructed' = [constructed EXCEPT ![t] = created + 1]
            /\ caller_pc' = [caller_pc EXCEPT ![t] = "assign"]
       ELSE /\ caller_pc' = [caller_pc EXCEPT ![t] = "return"]
            /\ UNCHANGED <<created, constructed>>
    /\ got' = [got EXCEPT ![t].attempts = @ + 1]
    /\ UNCHANGED <<client, locked>>
    /\ ClientFrame

\* Lines 12-28: QdrantClient(url=qdrant_url), or QdrantClient(path=...),
\* which raises RuntimeError while another process, or another client of
\* this process, holds the lock of the storage folder; the error is raised
\* again (lines 21-28).
ConstructClient(t) ==
    /\ caller_pc[t] = "construct"
    /\ IF qdrant_url \/ (created = 0 /\ ~locked)
       THEN /\ created' = created + 1
            /\ constructed' = [constructed EXCEPT ![t] = created + 1]
            /\ caller_pc' = [caller_pc EXCEPT ![t] = "assign"]
            /\ got' = [got EXCEPT ![t].attempts = @ + 1]
       ELSE /\ got' = [got EXCEPT ![t] = [raised |-> TRUE, client |-> NoClient,
                                         attempts |-> @.attempts + 1]]
            /\ caller_pc' = [caller_pc EXCEPT ![t] = "raised"]
            /\ UNCHANGED <<created, constructed>>
    /\ UNCHANGED <<client, locked>>
    /\ ClientFrame

\* Lines 16 and 20: the assignment _client = ...
AssignClient(t) ==
    /\ caller_pc[t] = "assign"
    /\ client' = constructed[t]
    /\ caller_pc' = [caller_pc EXCEPT ![t] = "return"]
    /\ UNCHANGED <<created, constructed, got, locked>>
    /\ ClientFrame

\* Line 29: return _client
ReturnClient(t) ==
    /\ caller_pc[t] = "return"
    /\ got' = [got EXCEPT ![t] = [raised |-> FALSE, client |-> client,
                                 attempts |-> @.attempts]]
    /\ caller_pc' = [caller_pc EXCEPT ![t] = "returned"]
    /\ UNCHANGED <<client, created, constructed, locked>>
    /\ ClientFrame

\* The other process that holds the lock of the storage folder ends.
ReleaseLock ==
    /\ pc = "client_calls"
    /\ locked
    /\ locked' = FALSE
    /\ UNCHANGED <<client, created, caller_pc, constructed, got>>
    /\ ClientFrame

NextClient ==
    \/ \E t \in Callers :
        \/ TestClient(t)
        \/ ConstructClient(t)
        \/ AssignClient(t)
        \/ ReturnClient(t)
    \/ ReleaseLock

SpecClient == InitClient /\ [][NextClient]_vars

(***************************************************************************)
(* run_rag_query when no call is left waiting: every call of a stage and   *)
(* of a collaborator returns, with a value or with a failure, so a request *)
(* that can take a step takes it.                                          *)
(***************************************************************************)
FairSpec == Spec /\ WF_vars(Next)

(***************************************************************************)
(* synthesizer_agent called on its own, for every answer of the model, and *)
(* the output guardrails that follow it in run_rag_query.                  *)
(***************************************************************************)
\* The queries of the calls: without numbers, with a keyword of each family
\* and of two families, with the numbers of the documented example, with one
\* number, with a comma before the numbers, and with a thousands separator.
SynthesizerQueries ==
    {<<"h", "i">>,
     <<"s", "u", "m", " ", "5", " ", "3">>,
     <<"r", "a", "t", "i", "o", " ", "4", " ", "0">>,
     <<"m", "i", "n", "u", "s", " ", "5", " ", "3">>,
     <<"t", "i", "m", "e", "s", " ", "5", " ", "3">>,
     <<"m", "e", "a", "n", " ", "5", " ", "3">>,
     <<"5", " ", "3">>,
     <<"m", "i", "n", "u", "s", " ", "s", "u", "m", " ", "5", " ", "3">>,
     <<"T", "o", "t", "a", "l", " ", "$", "5", "M", " ", "$", "3", "M">>,
     <<"s", "u", "m", " ", "7">>,
     <<"h", "i", ",", " ", "s", "u", "m", " ", "5", " ", "3">>,
     <<"h", "i", ",", " ", "5">>,
     <<"h", "i", ",", " ", "m", "e", "a", "n", " ", "5", " ", "3">>,
     <<"p", "e", "r", " ", "1", ",", "0", "0", "0", " ", "2", ".", "5">>}

\* The states that reach the synthesizer.
SynthesizerStates ==
    {[InitialState(q) EXCEPT !.requires_calculation = c, !.retrieved_chunks = chunks] :
        q \in SynthesizerQueries, c \in BOOLEAN, chunks \in ChunkInputs}

\* Lines 213-260: the calls of the synthesizer before it reads the response.
SynthesizerCalls(calculation) ==
    (IF calculation.called THEN <<"safe_calculator">> ELSE <<>>)
    \o (IF calculation.instruction THEN <<"calculation_instruction">> ELSE <<>>)
    \o <<"llm.invoke">>

InitSynthesize ==
    /\ pc = "synthesize_call"
    /\ state \in SynthesizerStates
    /\ query = state.query
    /\ final_state = NoState(query)
    /\ enable_safety \in BOOLEAN
    /\ llm_response \in SynthesizerResponses
    /\ retriever_answers = <<>>
    /\ validation_result = NoValidation
    /\ hallucination_result = NoHallucinationResult
    /\ trace = <<>>
    /\ raised = None
    /\ retrieve_calls = 0
    /\ expression = <<>>
    /\ calc_result = NoCalcResult
    /\ NoRetrieverCall
    /\ NoClientCall

\* A call of synthesizer_agent(state) to which the model answers llm_response,
\* and the return of app.invoke (line 388)
Synthesize ==
    /\ pc = "synthesize_call"
    /\ state' = synthesizer_agent(state, llm_response).state
    /\ raised' = synthesizer_agent(state, llm_response).exc
    /\ expression' = Calculation(state).expression
    /\ calc_result' = Calculation(state).calculation_result.value
    /\ trace' = SynthesizerCalls(Calculation(state))
    /\ pc' = IF raised' # None THEN "synthesize_raised" ELSE "guard"
    /\ final_state' = IF raised' # None THEN final_state ELSE state'
    /\ UNCHANGED <<query, enable_safety, validation_result, hallucination_result,
                   retrieve_calls, stage_vars, retriever_vars, client_vars>>

NextSynthesize ==
    \/ Synthesize
    \/ OutputGuardrails

SpecSynthesize == InitSynthesize /\ [][NextSynthesize]_vars

(***************************************************************************)
(* The input validation of run_rag_query on its own, for every answer of   *)
(* the safety model: llm_response is what safety_llm.invoke does.          *)
(***************************************************************************)
InitInputGuard ==
    /\ pc = "start"
    /\ query \in Queries
    /\ enable_safety \in BOOLEAN
    /\ llm_response \in SafetyResponses
    /\ retriever_answers = <<>>
    /\ validation_result = NoValidation
    /\ state = NoState(query)
    /\ final_state = NoState(query)
    /\ hallucination_result = NoHallucinationResult
    /\ trace = <<>>
    /\ raised = None
    /\ retrieve_calls = 0
    /\ expression = <<>>
    /\ calc_result = NoCalcResult
    /\ NoRetrieverCall
    /\ NoClientCall

\* Lines 349-387 of run_rag_query with the safety model answering
\* llm_response: validate_input, then the blocked state or initial_state.
ValidateInput ==
    /\ pc = "start"
    /\ validation_result' = IF enable_safety THEN validate_input(query, llm_response)
                            ELSE NoValidation
    /\ IF enable_safety /\ validation_result'.should_block
       THEN /\ state' = BlockedState(query, validation_result'.reason)
            /\ pc' = "blocked"
       ELSE /\ state' = InitialState(query)
            /\ pc' = "classify"
    /\ trace' = IF enable_safety THEN Append(trace, "validate_input") ELSE trace
    /\ UNCHANGED <<query, enable_safety, final_state, hallucination_result, raised,
                   retrieve_calls, expression, calc_result, stage_vars,
                   retriever_vars, client_vars>>

NextInputGuard == ValidateInput

SpecInputGuard == InitInputGuard /\ [][NextInputGuard]_vars

(***************************************************************************)
(* The properties claimed of the pipeline, the calculator and the verifier.*)
(***************************************************************************)
\* The stages a trace names, without the input validation.
StagesOf(t) == SelectSeq(t, LAMBDA x : x # "validate_input")

\* The stages of a complete request, in order.
AllStages ==
    <<"query_analyzer", "retrieval_agent", "synthesizer_agent">>
        \o (IF enable_safety THEN <<"detect_hallucination">> ELSE <<>>)

\* C1: a request that is not blocked and has ended, returning or raising, has
\* executed classify, retrieve, synthesize and, when safety is enabled, verify,
\* each exactly once and in this order.
C1_AllStagesInOrder ==
    pc \in {"done", "raised"} => StagesOf(trace) = AllStages

\* C2: when safety is enabled and the input validation says block, the run
\* has ended in the blocked state: confidence 0, verification not passed, no
\* chunks, no citations, no stage invoked, and no step follows.
C2_BlockedIsTerminal ==
    (enable_safety /\ validation_result.should_block) =>
        /\ pc = "blocked"
        /\ state.query_type = "blocked"
        /\ state.confidence_score = 0
        /\ ~state.verification_passed
        /\ state.retrieved_chunks = <<>>
        /\ state.citations = <<>>
        /\ StagesOf(trace) = <<>>
        /\ ~ENABLED Next

\* A blocked request, the reason the safety model gave in its answer.
C2_Witness ==
    /\ pc = "blocked"
    /\ validation_result.should_block
    /\ state.answer = BlockedPrefix \o ReasonInjection

\* What the rules of the verifier give for a confidence and a chunk list.
ExpectedFlag(confidence_score, retrieved_chunks) ==
    Below(confidence_score, LowConfidence) \/ retrieved_chunks = <<>>

\* C3 (the state returned): with safety enabled, the last two stages were the
\* synthesizer and then the verifier, and the confidence and verification
\* returned are the verifier's, whatever verification the synthesizer set.
C3_Returned ==
    (pc = "done" /\ enable_safety) =>
        /\ Len(trace) >= 2
        /\ trace[Len(trace) - 1] = "synthesizer_agent"
        /\ trace[Len(trace)] = "detect_hallucination"
        /\ state.confidence_score = hallucination_result.confidence
        /\ state.verification_passed = ~hallucination_result.hallucination_flag
        /\ state.verification_passed =
            ~ExpectedFlag(final_state.confidence_score, final_state.retrieved_chunks)

\* C3 (the step): with safety enabled, the step that follows the synthesizer
\* is the verifier, called with the synthesizer's answer, chunks and confidence.
C3_Step ==
    (pc = "guard" /\ enable_safety) =>
        /\ pc' = "done"
        /\ trace' = Append(trace, "detect_hallucination")
        /\ hallucination_result'.hallucination_flag =
            ExpectedFlag(state.confidence_score, state.retrieved_chunks)

\* C3: when safety is enabled and the request is not blocked, the verifier
\* always runs after the synthesizer, and the confidence_score and
\* verification_passed returned are exactly the verifier's outputs, regardless
\* of the verification the synthesizer produced.
C3_VerifierOverwrites == [](C3_Returned) /\ [][C3_Step]_vars

\* A request whose synthesizer passed the verification with a confidence that
\* the verifier then set to 0, failing the verification.
C3_Witness ==
    /\ pc = "done"
    /\ enable_safety
    /\ final_state.verification_passed
    /\ ~state.verification_passed
    /\ final_state.confidence_score >= 400
    /\ state.confidence_score = 0

\* The fields of the state each stage owns.
OwnedBy(stage) ==
    CASE stage = "classify" -> {"query_type", "entities", "multi_entity", "requires_calculation"}
      [] stage = "retrieve" -> {"retrieved_chunks"}
      [] stage = "synthesize" -> {"calculation_result", "answer", "citations",
                                  "confidence_score", "verification_passed"}
      [] stage = "guard" -> {"confidence_score", "verification_passed"}

\* A step of a stage keeps every field, and the value of every field the
\* stage does not own.
C4_Frame ==
    pc \in {"classify", "retrieve", "synthesize", "guard"} =>
        /\ DOMAIN state' = DOMAIN state
        /\ \A f \in DOMAIN state \ OwnedBy(pc) : state'[f] = state[f]
        /\ state'.query = query

\* C4: each stage leaves every field it does not own unchanged and removes no
\* field: the classifier changes only query_type, entities, multi_entity and
\* requires_calculation, retrieval only retrieved_chunks, the synthesizer only
\* calculation_result, answer, citations, confidence_score and
\* verification_passed, the verifier only confidence_score and
\* verification_passed; no stage changes query.
C4_StagesChangeOnlyOwnFields == [][C4_Frame]_vars

\* A request through all four stages, each of which has set fields of its own:
\* more entities than are looked up, chunks, a calculation, and a confidence
\* the verifier changed.
C4_Witness ==
    /\ pc = "done"
    /\ enable_safety
    /\ Len(state.entities) > EntityLimit
    /\ state.multi_entity
    /\ state.retrieved_chunks # <<>>
    /\ ~state.calculation_result.null
    /\ state.confidence_score # final_state.confidence_score

\* C5: a failure of the model call in the classifier or in the synthesizer
\* is absorbed by the stage: it never leaves the stage, so the run does not
\* end by raising it.
C5_ModelFailureAbsorbed ==
    ~(pc = "raised" /\ raised = "llm"
        /\ trace[Len(trace)] \in {"query_analyzer", "synthesizer_agent"})

\* C6: a failure of the embedding, of the vector query, of the keyword query
\* or of the rerank is caught in retrieve(), which returns an empty list: none
\* leaves retrieve() and ends the run.
C6_RetrieveFailureCaught ==
    ~(pc = "raised" /\ raised \in {"embed", "vector", "keyword", "rerank"})

\* The error messages of safe_calculator (tools.py lines 49-149), without
\* the detail some of them append.
CalcErrors ==
    {"Empty or invalid expression", "No numbers found in expression",
     "Unbalanced parentheses", "Invalid operation", "Result is not a number (NaN)",
     "Result is infinite (overflow)", "Division by zero", "Invalid expression syntax",
     "Calculation error"}

\* C7: safe_calculator never raises: for every expression it returns a result,
\* which on every failure path has success = false, result = null and an
\* error message, and on every success path has success = true and a finite
\* number as result.
C7_CalculatorNeverRaises ==
    pc = "returned" =>
        /\ calc_result.expression = expression
        /\ ~IsExc(calc_result.result)
        /\ calc_result.success =>
            /\ calc_result.error = None
            /\ calc_result.result.t = "float"
            /\ IsNum(calc_result.result)
            /\ IsFinite(calc_result.result)
        /\ ~calc_result.success =>
            /\ calc_result.result = NoV
            /\ calc_result.error \in CalcErrors

\* A call in which eval() raised an error that is neither a division by zero
\* nor a syntax or type error, and the call returned the failure.
C7_Witness ==
    /\ pc = "returned"
    /\ ReachesEval(expression)
    /\ ~calc_result.success
    /\ calc_result.error = "Calculation error"

\* The kinds of the nodes of an expression tree.
RECURSIVE Kinds(_)
Kinds(ast) ==
    CASE ast.k \in {"lit", "name"} -> {ast.k}
      [] ast.k \in {"attr", "un"} -> {ast.k} \cup Kinds(ast.a)
      [] ast.k = "bin" -> {"bin"} \cup Kinds(ast.a) \cup Kinds(ast.b)
      [] ast.k = "call" ->
            {"call"} \cup Kinds(ast.f)
                     \cup (IF ast.args = <<>> THEN {} ELSE Kinds(ast.args[1]))

\* The characters of a text.
CharsOf(s) == {s[i] : i \in 1..Len(s)}

\* The text handed to compile() has only digits, operator characters,
\* parentheses, blanks and decimal points, and what is evaluated refers to no
\* name.
OnlyArithmeticText ==
    /\ ReachesCompile(expression) => CharsOf(Prepared(expression)) \subseteq AllowedChars
    /\ ReachesEval(expression) => Compile(Prepared(expression)).co_names = <<>>
    /\ (ReachesCompile(expression) /\ Compile(Prepared(expression)).co_names # <<>>) =>
            (~calc_result.success /\ calc_result.error = "Invalid operation")

\* C8 as claimed: the text evaluated has only digits, operator characters,
\* parentheses, blanks and decimal points, a text with a name is rejected
\* before execution, and no name, call or attribute access is ever evaluated.
C8_NoNameCallOrAttribute ==
    pc = "returned" =>
        /\ OnlyArithmeticText
        /\ ReachesEval(expression) =>
            Kinds(Compile(Prepared(expression)).ast) \cap {"name", "call", "attr"} = {}

\* C8 as amended: the text evaluated has only digits, operator characters,
\* parentheses, blanks and decimal points, a text with a name is rejected
\* before execution, and no name or attribute access is ever evaluated; a
\* call is evaluated only of a number, a tuple or an ellipsis, which is not
\* callable, and the calculator then returns a failure.
C8_NoNameOrAttribute ==
    pc = "returned" =>
        /\ OnlyArithmeticText
        /\ ReachesEval(expression) =>
            /\ Kinds(Compile(Prepared(expression)).ast) \cap {"name", "attr"} = {}
            /\ "call" \in Kinds(Compile(Prepared(expression)).ast) =>
                /\ ~calc_result.success
                /\ calc_result.error \in {"Invalid expression syntax", "Division by zero",
                                          "Calculation error"}

\* An expression with a letter whose residual is evaluated and holds a call.
C8_Witness ==
    /\ pc = "returned"
    /\ "a" \in CharsOf(expression)
    /\ ReachesEval(expression)
    /\ "call" \in Kinds(Compile(Prepared(expression)).ast)
    /\ calc_result.error = "Invalid expression syntax"

C10_EmptyAlwaysZero ==
    (pc = "verified" /\ final_state.retrieved_chunks = <<>>) =>
        hallucination_result.confidence = 0

\* C10 as amended: no chunks always give the flag; they give the confidence 0
\* when the confidence given is at least 0.4, and the confidence given times
\* 0.8 when it is below 0.4.
C10_EmptyZeroUnlessLow ==
    (pc = "verified" /\ final_state.retrieved_chunks = <<>>) =>
        /\ hallucination_result.hallucination_flag
        /\ final_state.confidence_score >= 400 => hallucination_result.confidence = 0
        /\ final_state.confidence_score < 400 =>
            10 * hallucination_result.confidence = 8 * final_state.confidence_score

\* No chunks and a confidence at least 0.4: the confidence becomes 0.
C10_Witness ==
    /\ pc = "verified"
    /\ final_state.retrieved_chunks = <<>>
    /\ final_state.confidence_score = 900
    /\ hallucination_result.confidence = 0

\* The model answered, and its output is no JSON, or JSON that is no object,
\* or an object without one of the three keys.
NoFullAnalysis ==
    /\ ~llm_response.raises
    /\ \/ Decoded(llm_response).kind # "object"
       \/ ~Decoded(llm_response).has_query_type
       \/ ~Decoded(llm_response).has_entities
       \/ ~Decoded(llm_response).has_requires_calculation

\* C11: whenever the model output of the classifier is not the expected JSON
\* object, or is an object that lacks one of the keys query_type, entities and
\* requires_calculation, the classifier returns, and what it returns is
\* exactly factual, no entities, no calculation, and multi_entity false.
C11_FallbackClassification ==
    (pc \in {"classified", "classify_raised"} /\ NoFullAnalysis) =>
        /\ pc = "classified"
        /\ state.query_type = "factual"
        /\ state.entities = <<>>
        /\ ~state.requires_calculation
        /\ ~state.multi_entity

\* The hits of the two searches in the order of the merge (line 66).
Hits == env.semantic \o env.keyword

\* The call has merged the hits (lines 64-71).
Merged == pc = "retrieve_returned" /\ "keyword" \in Range(retrieved.calls)

\* The first hit that gives a document of this chunk_id.
FirstHit(hits, chunk_id) ==
    hits[CHOOSE i \in 1..Len(hits) :
            /\ normalize_payload(hits[i]).chunk_id = chunk_id
            /\ \A j \in 1..(i - 1) : normalize_payload(hits[j]).chunk_id # chunk_id]

\* C12: the deduplication by chunk_id is first-seen-wins: of the hits with
\* the same chunk_id, semantic hits before keyword hits, the record kept (its
\* text and document) is that of the first.
C12_FirstSeenWins ==
    Merged =>
        \A i \in 1..Len(unique_docs) :
            unique_docs[i] = normalize_payload(FirstHit(Hits, unique_docs[i].chunk_id))

\* The hits in every order.
Orders(hits) ==
    {[i \in 1..Len(hits) |-> hits[f[i]]] : f \in Permutations(1..Len(hits))}

\* The hits with two of them exchanged, for every two: every order is
\* reached by such exchanges, one after another.
Exchanges(hits) ==
    {[hits EXCEPT ![i] = hits[j], ![j] = hits[i]] : i, j \in 1..Len(hits)}

\* The chunk_ids of a list of documents.
ChunkIds(docs) == {docs[i].chunk_id : i \in 1..Len(docs)}

\* A document as a hit: the payload with its three keys.
AsHit(doc) == Payload(doc.chunk_id, doc.text, <<>>, doc.filename, NoMeta)

\* Deduplicating the deduplicated documents again changes nothing.
Idempotent ==
    MergeCandidates(<<>>, [i \in 1..Len(unique_docs) |-> AsHit(unique_docs[i])]) = unique_docs

\* The hits that give a document of the same chunk_id give the same document.
DuplicatesAgree(hits) ==
    \A i, j \in 1..Len(hits) :
        normalize_payload(hits[i]).chunk_id = normalize_payload(hits[j]).chunk_id
            => normalize_payload(hits[i]) = normalize_payload(hits[j])

\* C13 as claimed: the deduplication is idempotent, and for the same hits in
\* any order the set of unique candidates, one record for each chunk_id, is
\* the same.
C13_OrderIndependent ==
    Merged =>
        /\ Idempotent
        /\ \A hits \in Orders(Hits) : Range(MergeCandidates(<<>>, hits)) = Range(unique_docs)

\* C13 as amended: the deduplication is idempotent; for the same hits in any
\* order the chunk_ids of the unique candidates are the same, one record for
\* each; and the records are the same when the hits that share a chunk_id
\* carry the same text and document. It is stated for the exchange of any
\* two hits of any hit lists, which gives it for every order.
C13_OrderIndependentIds ==
    Merged =>
        /\ Idempotent
        /\ \A hits \in Exchanges(Hits) :
            /\ ChunkIds(MergeCandidates(<<>>, hits)) = ChunkIds(unique_docs)
            /\ Len(MergeCandidates(<<>>, hits)) = Cardinality(ChunkIds(unique_docs))
            /\ DuplicatesAgree(Hits) =>
                Range(MergeCandidates(<<>>, hits)) = Range(unique_docs)

\* Hits with a point that gives no document before others, and with the same
\* point found by both searches.
C13_Witness ==
    /\ Merged
    /\ DuplicatesAgree(Hits)
    /\ env.semantic = <<PointD, PointA>>
    /\ env.keyword = <<PointA, PointC>>
    /\ Len(unique_docs) = 2

\* The rerank call raises, or a result of it has an index past the documents.
RerankFails ==
    \/ env.rerank = "fail"
    \/ \E r \in 1..Len(RerankResults(env.rerank, Len(unique_docs), top_k)) :
        RerankResults(env.rerank, Len(unique_docs), top_k)[r].index > Len(unique_docs)

\* C14: when the rerank step fails, by raising or by an index that is no
\* candidate's, retrieve() returns an empty list and does not raise; what it
\* returns otherwise is in the order of the rerank, never the candidates
\* unranked.
C14_RerankFailureGivesEmpty ==
    pc \in {"retrieve_returned", "retrieve_raised"} =>
        /\ ("rerank" \in Range(retrieved.calls) /\ RerankFails) =>
            /\ ~retrieved.raised
            /\ retrieved.results = <<>>
        /\ retrieved.results # <<>> =>
            /\ "rerank" \in Range(retrieved.calls)
            /\ ~RerankFails
            /\ \A r \in 1..Len(retrieved.results) :
                retrieved.results[r].chunk_id =
                    unique_docs[RerankResults(env.rerank, Len(unique_docs), top_k)[r].index].chunk_id

\* Two candidates and a rerank result whose index is past them.
C14_Witness ==
    /\ pc = "retrieve_returned"
    /\ env.rerank = "bad_index"
    /\ Len(unique_docs) = 2
    /\ "rerank" \in Range(retrieved.calls)
    /\ retrieved.results = <<>>

\* C15: when the index reports zero items, or the statistics call fails,
\* retrieve() returns an empty list, does not raise, and calls neither the
\* embedding nor the vector query, the keyword query or the rerank.
C15_EmptyIndexGivesEmpty ==
    (pc \in {"retrieve_returned", "retrieve_raised"} /\ env.count \in {"zero", "fail"}) =>
        /\ pc = "retrieve_returned"
        /\ ~retrieved.raised
        /\ retrieved.results = <<>>
        /\ retrieved.calls = <<"stats">>

\* The statistics call fails, and so would the embedding.
C15_Witness ==
    /\ pc = "retrieve_returned"
    /\ env.count = "fail"
    /\ env.embed = "fail"
    /\ retrieved.results = <<>>

\* The results of the first n retrieve calls of the stage, in order.
RECURSIVE AllResults(_, _)
AllResults(answers, n) ==
    IF n = 0 THEN <<>> ELSE AllResults(answers, n - 1) \o answers[n].results

\* The first result of this chunk_id.
FirstResult(results, chunk_id) ==
    results[CHOOSE i \in 1..Len(results) :
                /\ results[i].chunk_id = chunk_id
                /\ \A j \in 1..(i - 1) : results[j].chunk_id # chunk_id]

\* C16: for a comparative query with at least 2 entities the retrieval stage
\* makes one lookup for each of the first 3 entities at most, never more than
\* 3 retrieve calls whatever the number of entities, and the retrieved_chunks
\* it returns have no chunk_id twice: of the results with the same chunk_id
\* the first retrieved is kept.
C16_CappedLookupsDeduplicated ==
    (pc \in {"retrieval_returned", "retrieval_raised"}
        /\ state.multi_entity /\ Len(state.entities) >= 2) =>
        /\ retrieve_calls <= 3
        /\ pc = "retrieval_returned" =>
            /\ retrieve_calls = Min2(Len(state.entities), 3)
            /\ \A i, j \in 1..Len(state.retrieved_chunks) :
                state.retrieved_chunks[i].chunk_id = state.retrieved_chunks[j].chunk_id
                    => i = j
            /\ ChunkIds(state.retrieved_chunks)
                = ChunkIds(AllResults(retriever_answers, retrieve_calls))
            /\ \A i \in 1..Len(state.retrieved_chunks) :
                state.retrieved_chunks[i] =
                    ToChunk(FirstResult(AllResults(retriever_answers, retrieve_calls),
                                        state.retrieved_chunks[i].chunk_id))

\* More entities than are looked up, and a later lookup that returns a
\* chunk_id of an earlier one with another content, which is dropped.
C16_Witness ==
    /\ pc = "retrieval_returned"
    /\ state.multi_entity
    /\ Len(state.entities) = MaxEntities
    /\ retrieve_calls = 3
    /\ \E r \in Range(retriever_answers[2].results) :
        /\ r.chunk_id \in ChunkIds(retriever_answers[1].results)
        /\ ToChunk(r) \notin Range(state.retrieved_chunks)

\* C17: under any interleaving of concurrent callers of get_qdrant_client()
\* the client is constructed at most once in the process, and every caller,
\* concurrent or later, gets the same client, that of the first construction.
C17_InitialisedOnce ==
    pc = "client_calls" =>
        /\ created <= 1
        /\ \A t \in Callers : ~got[t].raised
        /\ \A t \in Callers : caller_pc[t] = "returned" => got[t].client = 1

\* C18: a request that has begun, every call of which returns, reaches a
\* terminal state, done or blocked; no failure of a collaborator ends it
\* before, and no stage runs without end.
C18_ReachesTerminalState == <>(pc \in {"done", "blocked"})

\* C19: in every state run_rag_query returns, whatever the model answered
\* and whether safety is enabled or not, confidence_score is in [0, 1].
C19_ConfidenceInRange ==
    pc \in {"done", "blocked"} =>
        (0 <= state.confidence_score /\ state.confidence_score <= 1000)

\* C20: in every state of the pipeline, the blocked state too, and whatever
\* the model answered to the classifier, query_type is one of factual,
\* comparative, summarization and calculation.
C20_QueryTypeInEnum ==
    pc # "start" =>
        state.query_type \in {"factual", "comparative", "summarization", "calculation"}

\* The function OPERATORS (tools.py lines 9-18) gives for an operator as
\* written: '^' and '**' are both operator.pow.
OperatorOf(op) ==
    IF op = <<"^">> \/ op = <<"*", "*">> THEN "**"
    ELSE IF op = <<"/", "/">> THEN "//"
    ELSE op[1]

\* float(OPERATORS[op](a, b)): standard arithmetic on the two operands.
Standard(a, op, b) == ToFloat(BinOp(OperatorOf(op), IntV(a), IntV(b)))

\* The operation is defined by the claim: no division by zero.
Defined(a, op, b) == OperatorOf(op) \in {"/", "//", "%"} => b # 0

\* The call returned the success with this value.
Succeeded(value) ==
    /\ calc_result.success
    /\ calc_result.result = value

\* 'a ^ b' gives what 'a ** b' gives.
CaretAsPower(a, b) ==
    /\ calc_result.success = safe_calculator(TwoOperandOf(a, <<"*", "*">>, b)).success
    /\ calc_result.result = safe_calculator(TwoOperandOf(a, <<"*", "*">>, b)).result
    /\ calc_result.error = safe_calculator(TwoOperandOf(a, <<"*", "*">>, b)).error

\* C21 as claimed: every two-operand expression 'a op b' over the bounded
\* integer operands, b nonzero for / // and %, gives success = true with the
\* result of standard arithmetic on a and b, and '^' gives what '**' gives.
C21_MatchesArithmetic ==
    (pc = "returned" /\ expression \in TwoOperand) =>
        \A a \in Operands, b \in Operands, op \in OperatorTexts :
            (expression = TwoOperandOf(a, op, b) /\ Defined(a, op, b)) =>
                /\ Succeeded(Standard(a, op, b))
                /\ op = <<"^">> => CaretAsPower(a, b)

\* The power of Python's grammar: the sign of a negative a is applied to
\* the power of its digit ('-2 ** 2' is -(2 ** 2)).
PowerAsWritten(a, op, b) ==
    IF a < 0 THEN ToFloat(Neg(BinOp("**", IntV(0 - a), IntV(b)))) ELSE Standard(a, op, b)

\* C21 as amended: the same, where a power has moreover no zero base with a
\* negative exponent, which gives the division-by-zero failure; and the
\* power of a negative a is the negated power of its absolute value.
C21_MatchesArithmeticAsWritten ==
    (pc = "returned" /\ expression \in TwoOperand) =>
        \A a \in Operands, b \in Operands, op \in OperatorTexts :
            (expression = TwoOperandOf(a, op, b) /\ Defined(a, op, b)) =>
                /\ (OperatorOf(op) # "**") => Succeeded(Standard(a, op, b))
                /\ (OperatorOf(op) = "**" /\ (a # 0 \/ b >= 0)) =>
                        Succeeded(PowerAsWritten(a, op, b))
                /\ (OperatorOf(op) = "**" /\ a = 0 /\ b < 0) =>
                        (~calc_result.success /\ calc_result.error = "Division by zero")
                /\ op = <<"^">> => CaretAsPower(a, b)

\* The call of '-2 ^ 2' returned -4.
C21_Witness ==
    /\ pc = "returned"
    /\ expression = TwoOperandOf(0 - 2, <<"^">>, 2)
    /\ calc_result.success
    /\ calc_result.result = FloatV(0 - 4, 1)

\* C22: in every pipeline state (the initial one, the one after each stage,
\* the final and the blocked one) multi_entity is true if and only if
\* query_type is comparative.
C22_MultiEntityIffComparative ==
    /\ state.multi_entity <=> state.query_type = "comparative"
    /\ final_state.multi_entity <=> final_state.query_type = "comparative"

\* A request classified as comparative has run to its end.
C22_Witness ==
    /\ pc = "done"
    /\ state.query_type = "comparative"
    /\ state.multi_entity
    /\ Len(state.entities) < MinEntities

\* The content of the model is not the object the synthesizer requires: it
\* is no JSON, or JSON that is no object, or an object whose confidence is no
\* number or whose citations are no objects.
NotRequiredObject ==
    /\ ~llm_response.raises
    /\ \/ Decoded(llm_response).kind # "object"
       \/ /\ Decoded(llm_response).has_confidence_score
          /\ ToConfidence(Decoded(llm_response).confidence_score).raised
       \/ \E i \in 1..Len(Decoded(llm_response).citations) :
            ~Decoded(llm_response).citations[i].is_object

\* The state is the fallback of lines 288-291 for the response.
IsFallback(s) ==
    /\ s.answer = Content(llm_response.fence, llm_response.body)
    /\ s.citations = <<>>
    /\ s.confidence_score = FallbackConfidence
    /\ ~s.verification_passed

\* C23: whenever the output of the synthesis model cannot be decoded into the
\* required object, with or without a code fence, the synthesizer returns,
\* and returns the raw text as answer, no citations and the confidence 0.3;
\* the final state has verification_passed = false.
C23_FallbackSynthesis ==
    (pc \in {"guard", "done", "synthesize_raised"} /\ NotRequiredObject) =>
        /\ pc # "synthesize_raised"
        /\ IsFallback(final_state)
        /\ pc = "done" => ~state.verification_passed

\* The numeric tokens of a text: the tokens line 220 finds that hold a digit.
NumericTokens(text) == SelectSeq(FindNumbers(text, 1), HasDigit)

\* The expression for the operands a and b and the first keyword family
\* that the lowercased query matches.
Operation(query_lower, a, b) ==
    CASE ContainsAny(query_lower, AddWords) -> a \o <<" ", "+", " ">> \o b
      [] ~ContainsAny(query_lower, AddWords) /\ ContainsAny(query_lower, SubWords) ->
            a \o <<" ", "-", " ">> \o b
      [] ~ContainsAny(query_lower, AddWords \cup SubWords)
         /\ ContainsAny(query_lower, MulWords) -> a \o <<" ", "*", " ">> \o b
      [] ~ContainsAny(query_lower, AddWords \cup SubWords \cup MulWords)
         /\ ContainsAny(query_lower, DivWords) -> a \o <<" ", "/", " ">> \o b
      [] ~ContainsAny(query_lower, AddWords \cup SubWords \cup MulWords \cup DivWords)
         /\ ContainsAny(query_lower, AvgWords) ->
            <<"(">> \o a \o <<" ", "+", " ">> \o b \o <<")", " ", "/", " ", "2">>
      [] OTHER -> a \o <<" ", "+", " ">> \o b

\* The expression of the first two of these tokens, for the query.
OperationOn(tokens) ==
    /\ Len(tokens) >= MinNumbers
    /\ expression = Operation(LowerText(query), StripCommas(tokens[1]), StripCommas(tokens[2]))

\* The synthesizer has called the evaluator.
Calculated ==
    /\ pc \in {"guard", "done", "synthesize_raised"}
    /\ "safe_calculator" \in Range(trace)

\* The query of the documented example, and its expression.
ExampleQuery == <<"T", "o", "t", "a", "l", " ", "$", "5", "M", " ", "$", "3", "M">>

ExampleExpression == <<"5", " ", "+", " ", "3">>

\* C24: when a calculation is performed, the expression handed to the
\* evaluator has as operands the first two numeric tokens of the query
\* followed by the chunk contents, and the operator of the first keyword
\* family, in the order add, subtract, multiply, divide, average, that the
\* lowercased query matches, or + when none matches; a query with total,
\* $5M and $3M gives 5 + 3 and 8.0.
C24_ExpressionOfFirstTwoNumbers ==
    Calculated =>
        /\ OperationOn(NumericTokens(AllText(query, state.retrieved_chunks)))
        /\ query = ExampleQuery =>
            /\ expression = ExampleExpression
            /\ calc_result.success
            /\ calc_result.result = FloatV(8, 1)

\* C25: the synthesizer calls the evaluator only when requires_calculation is
\* true and at least two numeric tokens are found, and otherwise the final
\* state has no calculation_result; the calculation instruction is added to
\* the prompt if and only if the evaluator returned success = true; and the
\* synthesis call is made whether or not the calculation failed.
C25_CalculatorGated ==
    pc \in {"guard", "done", "synthesize_raised"} =>
        /\ Calculated =>
            /\ state.requires_calculation
            /\ Len(NumericTokens(AllText(query, state.retrieved_chunks))) >= MinNumbers
        /\ (~Calculated /\ pc # "synthesize_raised") => final_state.calculation_result.null
        /\ "calculation_instruction" \in Range(trace) <=> (Calculated /\ calc_result.success)
        /\ "llm.invoke" \in Range(trace)

\* The running counter over a text becomes negative, or is not zero at the
\* end.
CounterFails(s) ==
    \/ \E i \in 1..Len(s) : ParenCount(s, i) < 0
    \/ ParenCount(s, Len(s)) # 0

\* The failures that are returned before compile() and eval() are reached.
EarlyErrors ==
    {"Empty or invalid expression", "No numbers found in expression", "Unbalanced parentheses"}

\* C26 as claimed: safe_calculator checks the balance of the parentheses
\* with a running counter over the sanitized expression; when the counter
\* becomes negative or is not zero at the end, the call returns success =
\* false with the unbalanced-parentheses error and the expression is not
\* evaluated.
C26_UnbalancedReported ==
    (pc = "returned" /\ CounterFails(Prepared(expression))) =>
        calc_result = CalcFailure(expression, "Unbalanced parentheses")

\* C26 as amended: when the counter over the sanitized expression becomes
\* negative or is not zero at the end, the call returns success = false and
\* the expression is not evaluated; the error is the unbalanced-parentheses
\* error when the expression has a digit, and otherwise that of the earlier
\* check that rejects it.
C26_UnbalancedRejected ==
    (pc = "returned" /\ CounterFails(Prepared(expression))) =>
        /\ ~calc_result.success
        /\ calc_result.result = NoV
        /\ calc_result.error \in EarlyErrors
        /\ HasDigit(expression) =>
            calc_result = CalcFailure(expression, "Unbalanced parentheses")
        /\ ~HasDigit(expression) =>
            calc_result.error \in EarlyErrors \ {"Unbalanced parentheses"}

\* The call of 2 + ) returned the unbalanced-parentheses error.
C26_Witness ==
    /\ pc = "returned"
    /\ expression = <<"2", " ", "+", " ", ")">>
    /\ CounterFails(Prepared(expression))
    /\ calc_result = CalcFailure(expression, "Unbalanced parentheses")

\* The residual of the call has no digit.
NoDigitLeft ==
    /\ pc = "returned"
    /\ ~HasDigit(Sanitize(expression))

\* C27 as claimed: every input whose sanitized residual has no digit, such
\* as abc, whose residual is empty, returns success = false with the
\* no-numbers error.
C27_NoDigitsNoNumbers ==
    NoDigitLeft => calc_result = CalcFailure(expression, "No numbers found in expression")

\* C27 as amended: every input whose sanitized residual has no digit returns
\* success = false: with the empty-expression error when the residual is
\* empty or blank, as for abc, and with the no-numbers error when it is not.
C27_NoDigitsRejected ==
    NoDigitLeft =>
        calc_result = CalcFailure(expression,
                                  IF \A i \in 1..Len(Sanitize(expression)) :
                                        Sanitize(expression)[i] \in WhitespaceChars
                                  THEN "Empty or invalid expression"
                                  ELSE "No numbers found in expression")

\* The call of abc returned the empty-expression error.
C27_Witness ==
    /\ NoDigitLeft
    /\ expression = <<"a", "b", "c">>
    /\ Sanitize(expression) = <<>>
    /\ calc_result = CalcFailure(expression, "Empty or invalid expression")

\* A caller's construction failed on the lock that another process held.
FailedOnLock(t) ==
    /\ got[t].raised
    /\ ~qdrant_url

\* C28: when the initialisation of the index client fails because another
\* process holds the backing resource, the caller gets the error, the call
\* does not try the initialisation again, and no client that failed to
\* initialise is stored or handed to a caller: what is stored and what is
\* returned is a client whose construction completed, or nothing.
C28_LockFailureIsFatal ==
    pc = "client_calls" =>
        /\ \A t \in Callers :
            /\ got[t].attempts <= 1
            /\ got[t].raised =>
                /\ caller_pc[t] = "raised"
                /\ got[t].attempts = 1
                /\ got[t].client = NoClient
                /\ constructed[t] = NoClient
            /\ caller_pc[t] = "returned" =>
                /\ ~got[t].raised
                /\ got[t].client \in 1..created
        /\ client \in {NoClient} \cup 1..created
        /\ (locked /\ ~qdrant_url) => (client = NoClient /\ created = 0)

\* The only caller so far failed on the lock of another process, which still
\* holds it, and nothing is stored.
C28_Witness ==
    /\ pc = "client_calls"
    /\ locked
    /\ \E t \in Callers : FailedOnLock(t) /\ caller_pc[t] = "raised"
    /\ created = 0
    /\ client = NoClient

\* C29: in every state run_rag_query returns with safety enabled,
\* verification_passed = true implies that retrieved_chunks is not empty and
\* that confidence_score is at least 0.4: a request without chunks, or with
\* a confidence of the synthesizer below 0.4, never ends verified.
C29_VerifiedHasChunksAndConfidence ==
    (pc \in {"done", "blocked"} /\ enable_safety /\ state.verification_passed) =>
        /\ state.retrieved_chunks # <<>>
        /\ NotBelow(state.confidence_score, LowConfidence)
        /\ pc = "done" => NotBelow(final_state.confidence_score, LowConfidence)

\* has_sufficient_context of the synthesizer for a response (lines 274, 291).
SufficientContext(s, response) ==
    IF Decoded(response).kind = "malformed" THEN s.retrieved_chunks # <<>>
    ELSE IF Decoded(response).has_has_sufficient_context
    THEN Decoded(response).has_sufficient_context
    ELSE TRUE

\* C30 (the states): with safety disabled neither the input check nor the
\* verifier is called, the request is not blocked, and the state returned is
\* the state the synthesizer returned.
C30_Returned ==
    ~enable_safety =>
        /\ "validate_input" \notin Range(trace)
        /\ "detect_hallucination" \notin Range(trace)
        /\ validation_result = NoValidation
        /\ hallucination_result = NoHallucinationResult
        /\ pc # "blocked"
        /\ pc = "done" =>
            /\ state.confidence_score = final_state.confidence_score
            /\ state.verification_passed = final_state.verification_passed
            /\ state = final_state

\* C30 (the step of the synthesizer): with safety disabled the synthesizer
\* sets verification_passed to has_sufficient_context and confidence_score
\* >= 0.4, for the response it read.
C30_Step ==
    (pc = "synthesize" /\ ~enable_safety /\ pc' = "guard") =>
        \E response \in SynthesizerResponses :
            /\ ~response.raises
            /\ state'.answer = IF Decoded(response).kind = "malformed"
                               THEN Content(response.fence, response.body)
                               ELSE Decoded(response).answer
            /\ Len(state'.citations) = IF Decoded(response).kind = "malformed" THEN 0
                                       ELSE Len(Decoded(response).citations)
            /\ state' = synthesizer_agent(state, response).state
            /\ final_state' = state'
            /\ state'.verification_passed =
                (SufficientContext(state, response)
                 /\ NotBelow(state'.confidence_score, VerificationThreshold))

\* C30: when run_rag_query is called with safety disabled, neither the input
\* check nor the verifier is called, no query is blocked, and the
\* confidence_score and verification_passed returned are those of the
\* synthesizer, with verification_passed = (has_sufficient_context and
\* confidence_score >= 0.4).
C30_SafetyDisabled == [](C30_Returned) /\ [][C30_Step]_vars

\* A request without safety returned verified with no chunks, as the
\* synthesizer set it.
C30_Witness ==
    /\ pc = "done"
    /\ ~enable_safety
    /\ trace = <<"query_analyzer", "retrieval_agent", "synthesizer_agent">>
    /\ state.retrieved_chunks = <<>>
    /\ state.verification_passed
    /\ state.confidence_score >= VerificationThreshold

\* The safety model's call failed, or its output is no JSON object.
FailedOrUnparsed(response) == response.raises \/ Decoded(response).kind # "object"

\* The safety model's parsed output says the query is not safe: it is an
\* object whose "is_safe" is false.
SaysNotSafe(response) ==
    /\ ~FailedOrUnparsed(response)
    /\ Decoded(response).has_is_safe
    /\ Decoded(response).is_safe = "false"

\* C31: after the input validation of a request with safety enabled, nothing
\* was raised; if the safety model's call failed or its output could not be
\* parsed, the query is reported safe, should_block is false and the request
\* has entered the pipeline with its initial state; and the request is
\* blocked only if the parsed output says the query is not safe.
C31_FailsOpen ==
    (pc # "start" /\ enable_safety) =>
        /\ raised = None
        /\ FailedOrUnparsed(llm_response) =>
            /\ validation_result.is_safe
            /\ ~validation_result.should_block
            /\ pc = "classify"
            /\ state = InitialState(query)
        /\ (pc = "blocked" \/ validation_result.should_block) => SaysNotSafe(llm_response)

====
